---- MODULE Spec2Model ----
(***************************************************************************)
(* Delayed message queue of an nsqd topic partition: the segmented disk    *)
(* queue writer (diskQueueWriter) and the DelayQueue that pairs it with a  *)
(* bolt key/value store of three buckets.                                  *)
(*                                                                         *)
(* Every operation of the code is an operator that maps an object (a       *)
(* record of its fields and of the files it owns) to the object after the  *)
(* call plus the values the call returns; the actions apply these          *)
(* operators to the state variables.                                       *)
(***************************************************************************)
EXTENDS Integers, Sequences, FiniteSets, TLC

VARIABLES
    q,      \* the DelayQueue under test (on a replication pair: the leader)
    r,      \* a second DelayQueue (follower / restore target)
    bk,     \* the backup stream last written by BackupKVStoreTo: <<>> or <<bytes>>
    last,   \* the last call: its name, arguments, results and the objects before it
    th,     \* concurrent callers of the disk queue writer: their program counters and locals
    mu,     \* holder of diskQueueWriter's RWMutex (write side): <<>> or <<thread>>
    appended \* successful appends of the concurrent callers, in the order they were made

vars == <<q, r, bk, last, th, mu, appended>>

(***************************************************************************)
(* Bounds of the model                                                     *)
(***************************************************************************)
MaxOffset == 20      \* no append starts at or beyond this virtual offset
MaxFileNum == 2      \* no reset-with-queue-start is made at or beyond this file number
MaxID == 3           \* no put is made once defaultIDSeq has reached this value

MaxLogOffset == 48   \* no append to the bare writer starts at or beyond this virtual offset

(***************************************************************************)
(* Generic helpers                                                         *)
(***************************************************************************)
Max(a, b) == IF a >= b THEN a ELSE b

None == <<>>
Some(x) == <<x>>

EmptyMap == [x \in {} |-> 0]
MapPut(f, k, v) == [x \in DOMAIN f \cup {k} |-> IF x = k THEN v ELSE f[x]]
MapDel(f, k) == [x \in DOMAIN f \ {k} |-> f[x]]

(***************************************************************************)
(* diskQueueWriter                                                         *)
(***************************************************************************)
MAX_QUEUE_OFFSET_META_DATA_KEEP == 100

\* instantiation time parameters of the writer
maxBytesPerFile == 22
minMsgSize == 6
maxMsgSize == 12

\* diskQueueEndInfo
EndInfo(fileNum, pos, virtualEnd, totalMsgCnt) ==
    [FileNum |-> fileNum, Pos |-> pos, virtualEnd |-> virtualEnd, totalMsgCnt |-> totalMsgCnt]

ZeroEnd == EndInfo(0, 0, 0, 0)

\* the writer right after newDiskQueueWriter on an empty data directory
NewDiskQueueWriter ==
    [ diskWriteEnd   |-> ZeroEnd,
      diskReadEnd    |-> ZeroEnd,
      diskQueueStart |-> ZeroEnd,
      needSync       |-> FALSE,
      exitFlag       |-> 0,
      writeFile      |-> None,       \* the open data file: None or Some(fileNum)
      files          |-> EmptyMap,   \* data files on disk: fileNum -> size in bytes
      offsetMeta     |-> EmptyMap,   \* <file>.offsetmeta.dat: fileNum -> <<cnt, start, end>>
      rollData       |-> {},         \* files renamed to <file>.rolldata
      metaData       |-> None,       \* meta.writer.dat: None or Some(diskQueueEndInfo)
      extraMeta      |-> Some(ZeroEnd) ] \* meta.extra.dat, written by the constructor

\* persistMetaData
persistMetaData(d) == [d EXCEPT !.metaData = Some(d.diskWriteEnd)]

\* saveExtraMeta
saveExtraMeta(d) == [d EXCEPT !.extraMeta = Some(d.diskQueueStart)]

\* sync: flush the buffer, fsync, readEnd := writeEnd, persist the metadata
sync(d) ==
    persistMetaData([d EXCEPT !.diskReadEnd = d.diskWriteEnd, !.needSync = FALSE])

\* closeCurrentFile
closeCurrentFile(d) ==
    [d EXCEPT !.diskReadEnd = d.diskWriteEnd, !.writeFile = None]

\* saveFileOffsetMeta run after the write end has moved to the next file: the file
\* start is taken to be the write end itself
saveFileOffsetMetaAtEnd(d) ==
    [d EXCEPT !.offsetMeta = MapPut(@, d.diskWriteEnd.FileNum,
        << d.diskWriteEnd.totalMsgCnt,
           d.diskWriteEnd.virtualEnd,
           d.diskWriteEnd.virtualEnd >>)]

\* saveFileOffsetMeta
saveFileOffsetMeta(d) ==
    [d EXCEPT !.offsetMeta = MapPut(@, d.diskWriteEnd.FileNum,
        << d.diskWriteEnd.totalMsgCnt,
           d.diskWriteEnd.virtualEnd - d.diskWriteEnd.Pos,
           d.diskWriteEnd.virtualEnd >>)]

\* what writeOne, PutV2 and PutRawV2 return
WriteRet(d, offset, writeBytes, dend, err) ==
    [d |-> d, offset |-> offset, writeBytes |-> writeBytes, dend |-> dend, err |-> err]

\* writeOne's totalBytes with the 4-byte length prefix left out
totalBytesNoPrefix(dataLen, isRaw) == dataLen

\* writeOne: totalBytes := len(data), plus the 4-byte length prefix unless raw
totalBytes(dataLen, isRaw) == dataLen + (IF isRaw THEN 0 ELSE 4)

\* writeOne
writeOne(d, dataLen, isRaw, msgCnt, ioErr) ==
    LET ret(writeOffset, tb, d3) == WriteRet(d3, writeOffset, tb, Some(d3.diskWriteEnd), "")
        nextFile(s) ==
            [s EXCEPT !.diskWriteEnd = [@ EXCEPT !.FileNum = @ + 1, !.Pos = 0],
                      !.diskReadEnd = [s.diskWriteEnd EXCEPT !.FileNum = @ + 1, !.Pos = 0]]
        roll(writeOffset, tb, d2) ==
            ret(writeOffset, tb,
                IF d2.diskWriteEnd.Pos >= maxBytesPerFile
                THEN nextFile(saveFileOffsetMeta([sync(d2) EXCEPT !.writeFile = None]))
                ELSE d2)
        advance(d1, tb, cnt) ==
            roll(d1.diskWriteEnd.virtualEnd, tb,
                 [d1 EXCEPT !.diskWriteEnd = [@ EXCEPT !.Pos = @ + tb,
                                                       !.virtualEnd = @ + tb,
                                                       !.totalMsgCnt = @ + cnt],
                            !.files = MapPut(@, d1.diskWriteEnd.FileNum,
                                             Max(@[d1.diskWriteEnd.FileNum],
                                                 d1.diskWriteEnd.Pos + tb))])
        opened(d1) ==
            IF ~isRaw /\ (dataLen < minMsgSize \/ dataLen > maxMsgSize)
            THEN WriteRet(d1, 0, 0, None, "invalid message write size")
            ELSE IF ioErr
            THEN WriteRet([sync(d1) EXCEPT !.writeFile = None], 0, 0, None, "io error")
            ELSE advance(d1, totalBytes(dataLen, isRaw), IF isRaw THEN msgCnt ELSE 1)
    IN  opened(IF d.writeFile = None
               THEN [d EXCEPT !.writeFile = Some(d.diskWriteEnd.FileNum),
                              !.files = IF d.diskWriteEnd.FileNum \in DOMAIN @ THEN @
                                        ELSE MapPut(@, d.diskWriteEnd.FileNum, 0)]
               ELSE d)

\* the tail of PutV2 and PutRawV2: copy *dend when it is not nil, set needSync
putTail(w) ==
    WriteRet([w.d EXCEPT !.needSync = TRUE], w.offset, w.writeBytes,
             IF w.dend = None THEN ZeroEnd ELSE w.dend[1], w.err)

\* a mutex that lets every caller in
lockAlways(m) == TRUE

\* d.Lock() of PutV2 and PutRawV2 returns once no caller holds the mutex
lockFree(m) == m = None

\* PutV2
PutV2(d, dataLen, ioErr) ==
    IF d.exitFlag = 1
    THEN WriteRet(d, 0, 0, ZeroEnd, "exiting")
    ELSE putTail(writeOne(d, dataLen, FALSE, 0, ioErr))

\* PutRawV2
PutRawV2(d, dataLen, msgCnt, ioErr) ==
    IF d.exitFlag = 1
    THEN WriteRet(d, 0, 0, ZeroEnd, "exiting")
    ELSE putTail(writeOne(d, dataLen, TRUE, msgCnt, ioErr))

\* Put that hands its data to writeOne as raw bytes, which are not measured
PutUnmeasured(d, dataLen, ioErr) ==
    IF d.exitFlag = 1
    THEN WriteRet(d, 0, 0, ZeroEnd, "exiting")
    ELSE putTail(writeOne(d, dataLen, TRUE, 1, ioErr))

\* Put: as PutV2, the caller reading the message count of the end it returns
Put(d, dataLen, ioErr) ==
    IF d.exitFlag = 1
    THEN WriteRet(d, 0, 0, ZeroEnd, "exiting")
    ELSE putTail(writeOne(d, dataLen, FALSE, 0, ioErr))

\* what the calls that return (diskQueueEndInfo, error) return
EndRet(d, err) == [d |-> d, err |-> err]

\* truncateDiskQueueToWriteEnd that removes the following data files instead of
\* renaming them
truncateDiskQueueRemoving(d) ==
    LET rolled(files1) ==
            {n \in DOMAIN files1 : /\ n > d.diskWriteEnd.FileNum
                                   /\ \A k \in (d.diskWriteEnd.FileNum + 1)..n :
                                        k \in DOMAIN files1}
        truncated(files1) ==
            [d EXCEPT !.writeFile = None,
                      !.files = [n \in DOMAIN files1 \ rolled(files1) |-> files1[n]]]
    IN  truncated(MapPut(d.files,
                         IF d.writeFile # None THEN d.writeFile[1] ELSE d.diskWriteEnd.FileNum,
                         d.diskWriteEnd.Pos))

\* truncateDiskQueueToWriteEnd: truncate the write file to diskWriteEnd.Pos, close it,
\* and rename every following data file to .rolldata up to the first missing one
truncateDiskQueueToWriteEnd(d) ==
    LET rolled(files1) ==
            {n \in DOMAIN files1 : /\ n > d.diskWriteEnd.FileNum
                                   /\ \A k \in (d.diskWriteEnd.FileNum + 1)..n :
                                        k \in DOMAIN files1}
        truncated(files1) ==
            [d EXCEPT !.writeFile = None,
                      !.files = [n \in DOMAIN files1 \ rolled(files1) |-> files1[n]],
                      !.rollData = @ \cup rolled(files1)]
    IN  truncated(MapPut(d.files,
                         IF d.writeFile # None THEN d.writeFile[1] ELSE d.diskWriteEnd.FileNum,
                         d.diskWriteEnd.Pos))

\* RollbackWriteV2 that leaves the message count of the write end as it is
RollbackWriteV2KeepCnt(d, offset, diffCnt) ==
    LET moved(d1, we1) ==
            EndRet(truncateDiskQueueToWriteEnd(
                      [d1 EXCEPT !.diskWriteEnd = we1,
                                 !.diskReadEnd = IF \/ @.Pos > we1.Pos
                                                    \/ @.virtualEnd > we1.virtualEnd
                                                 THEN we1 ELSE @]), "")
        synced(d1) ==
            IF offset > d1.diskWriteEnd.virtualEnd
            THEN EndRet(d1, "invalid offset")
            ELSE IF offset < d1.diskWriteEnd.virtualEnd - d1.diskWriteEnd.Pos
            THEN EndRet(d1, "invalid offset")
            ELSE moved(d1, [d1.diskWriteEnd EXCEPT
                               !.Pos = @ - (d1.diskWriteEnd.virtualEnd - offset),
                               !.virtualEnd = offset])
    IN  IF \/ offset < d.diskQueueStart.virtualEnd
           \/ d.diskWriteEnd.totalMsgCnt - diffCnt < d.diskQueueStart.totalMsgCnt
        THEN EndRet(d, "invalid offset")
        ELSE synced(IF d.needSync THEN sync(d) ELSE d)

\* RollbackWriteV2 without the test that keeps the target inside the current file
RollbackWriteV2AcrossFiles(d, offset, diffCnt) ==
    LET moved(d1, we1) ==
            EndRet(truncateDiskQueueToWriteEnd(
                      [d1 EXCEPT !.diskWriteEnd = we1,
                                 !.diskReadEnd = IF \/ @.Pos > we1.Pos
                                                    \/ @.virtualEnd > we1.virtualEnd
                                                 THEN we1 ELSE @]), "")
        synced(d1) ==
            IF offset > d1.diskWriteEnd.virtualEnd
            THEN EndRet(d1, "invalid offset")
            ELSE moved(d1, [d1.diskWriteEnd EXCEPT
                               !.Pos = @ - (d1.diskWriteEnd.virtualEnd - offset),
                               !.virtualEnd = offset,
                               !.totalMsgCnt = @ - diffCnt])
    IN  IF \/ offset < d.diskQueueStart.virtualEnd
           \/ d.diskWriteEnd.totalMsgCnt - diffCnt < d.diskQueueStart.totalMsgCnt
        THEN EndRet(d, "invalid offset")
        ELSE synced(IF d.needSync THEN sync(d) ELSE d)

\* RollbackWriteV2
RollbackWriteV2(d, offset, diffCnt) ==
    LET moved(d1, we1) ==
            EndRet(truncateDiskQueueToWriteEnd(
                      [d1 EXCEPT !.diskWriteEnd = we1,
                                 !.diskReadEnd = IF \/ @.Pos > we1.Pos
                                                    \/ @.virtualEnd > we1.virtualEnd
                                                 THEN we1 ELSE @]), "")
        synced(d1) ==
            IF offset > d1.diskWriteEnd.virtualEnd
            THEN EndRet(d1, "invalid offset")
            ELSE IF offset < d1.diskWriteEnd.virtualEnd - d1.diskWriteEnd.Pos
            THEN EndRet(d1, "invalid offset")
            ELSE moved(d1, [d1.diskWriteEnd EXCEPT
                               !.Pos = @ - (d1.diskWriteEnd.virtualEnd - offset),
                               !.virtualEnd = offset,
                               !.totalMsgCnt = @ - diffCnt])
    IN  IF \/ offset < d.diskQueueStart.virtualEnd
           \/ d.diskWriteEnd.totalMsgCnt - diffCnt < d.diskQueueStart.totalMsgCnt
        THEN EndRet(d, "invalid offset")
        ELSE synced(IF d.needSync THEN sync(d) ELSE d)

\* the loop of ResetWriteEndV2 that walks back over the data files until it reaches
\* the one holding offset: <<ok, newEnd, newWriteFileNum, newWritePos>>
RECURSIVE resetWalkBack(_, _, _, _, _)
resetWalkBack(d, offset, newEnd, newWriteFileNum, newWritePos) ==
    IF offset < newEnd - newWritePos
    THEN IF newWriteFileNum - 1 < 0
         THEN [err |-> "invalid offset", newEnd |-> newEnd - newWritePos,
               fileNum |-> newWriteFileNum - 1, pos |-> newWritePos]
         ELSE IF (newWriteFileNum - 1) \notin DOMAIN d.files
         THEN [err |-> "stat: no such file", newEnd |-> newEnd - newWritePos,
               fileNum |-> newWriteFileNum - 1, pos |-> newWritePos]
         ELSE resetWalkBack(d, offset, newEnd - newWritePos, newWriteFileNum - 1,
                            d.files[newWriteFileNum - 1])
    ELSE [err |-> "", newEnd |-> newEnd, fileNum |-> newWriteFileNum, pos |-> newWritePos]

\* ResetWriteEndV2
ResetWriteEndV2(d, offset, totalCnt) ==
    LET toStart(c) ==
            EndRet(truncateDiskQueueToWriteEnd(
                      [c EXCEPT !.diskWriteEnd = c.diskQueueStart,
                                !.diskReadEnd = c.diskQueueStart]), "")
        moved(d1, we1) ==
            EndRet(truncateDiskQueueToWriteEnd(closeCurrentFile(
                      [d1 EXCEPT !.diskWriteEnd = we1, !.diskReadEnd = we1])), "")
        walked(d1, w) ==
            IF w.err # "" THEN EndRet(d1, w.err)
            ELSE moved(d1, EndInfo(w.fileNum, w.pos - (w.newEnd - offset), offset, totalCnt))
        synced(d1) ==
            IF offset = 0 THEN toStart(closeCurrentFile(d1))
            ELSE walked(d1, resetWalkBack(d1, offset, d1.diskWriteEnd.virtualEnd,
                                          d1.diskWriteEnd.FileNum, d1.diskWriteEnd.Pos))
    IN  IF offset < d.diskQueueStart.virtualEnd \/ totalCnt < d.diskQueueStart.totalMsgCnt
        THEN EndRet(d, "invalid offset")
        ELSE IF offset > d.diskWriteEnd.virtualEnd
        THEN EndRet(d, "invalid offset")
        ELSE synced(IF d.needSync THEN sync(d) ELSE d)

\* cleanOldData: close the file, save its sidecar, remove every data file up to the
\* write file, and restart in the next file number
cleanOldData(d) ==
    LET restart(d1, we1) ==
            saveExtraMeta([d1 EXCEPT !.diskWriteEnd = we1,
                                     !.diskReadEnd = we1,
                                     !.diskQueueStart = we1])
        removed(d1) ==
            restart([d1 EXCEPT !.files =
                        [n \in DOMAIN @ \
                            (Max(0, d1.diskQueueStart.FileNum
                                      - MAX_QUEUE_OFFSET_META_DATA_KEEP - 1)
                               ..d1.diskWriteEnd.FileNum) |-> @[n]]],
                    [d1.diskWriteEnd EXCEPT !.FileNum = @ + 1, !.Pos = 0])
    IN  removed(saveFileOffsetMeta(closeCurrentFile(d)))

\* ResetWriteWithQueueStart
ResetWriteWithQueueStart(d, queueStartOffset, queueStartCnt) ==
    LET started(d1, qs) ==
            EndRet(saveExtraMeta([d1 EXCEPT !.diskQueueStart = qs,
                                            !.diskWriteEnd = qs,
                                            !.diskReadEnd = qs]), "")
        cleaned(d1) ==
            started(d1, [d1.diskWriteEnd EXCEPT !.virtualEnd = queueStartOffset,
                                               !.totalMsgCnt = queueStartCnt])
    IN  cleaned(cleanOldData(d))

\* what prepareCleanByRetention returns; newStart is None (nil) or Some(diskQueueEndInfo)
PrepRet(d, newStart, cleanStartFileNum, cleanFileNum, err) ==
    [d |-> d, newStart |-> newStart, cleanStartFileNum |-> cleanStartFileNum,
     cleanFileNum |-> cleanFileNum, err |-> err]

\* the loop of prepareCleanByRetention for a clean end given as a byte offset: newStart
\* moves over the files whose sidecar ends below cleanOffset
RECURSIVE cleanWalk(_, _, _, _)
cleanWalk(d, cleanOffset, newStart, cleanFileNum) ==
    LET read(meta) ==
            IF meta[3] < cleanOffset /\ cleanFileNum < d.diskReadEnd.FileNum - 1
            THEN cleanWalk(d, cleanOffset,
                           EndInfo(newStart.FileNum + 1, 0, meta[3], meta[1]),
                           newStart.FileNum + 1)
            ELSE [err |-> "", newStart |-> newStart, cleanFileNum |-> cleanFileNum]
    IN  IF newStart.FileNum \notin DOMAIN d.offsetMeta
        THEN [err |-> "open offsetmeta: no such file", newStart |-> newStart,
              cleanFileNum |-> cleanFileNum]
        ELSE read(d.offsetMeta[newStart.FileNum])

\* prepareCleanByRetention.  cleanEndInfo is None (nil) or Some of a record: hasFile
\* tells a *diskQueueOffsetInfo / *diskQueueEndInfo (FileNum, virtualEnd) from any other
\* BackendQueueOffset (virtualEnd only)
prepareCleanByRetention(d, cleanEndInfo, noRealClean, maxCleanOffset) ==
    LET commit(newStart, cleanFileNum) ==
            IF noRealClean THEN PrepRet(d, Some(newStart), 0, 0, "")
            ELSE PrepRet(saveExtraMeta([d EXCEPT !.diskQueueStart = newStart]),
                         Some(newStart),
                         Max(0, d.diskQueueStart.FileNum
                                  - MAX_QUEUE_OFFSET_META_DATA_KEEP - 1),
                         cleanFileNum, "")
        walked(w) ==
            IF w.err # "" THEN PrepRet(d, Some(w.newStart), 0, 0, w.err)
            ELSE commit(w.newStart, w.cleanFileNum)
        read(fileNum, meta) ==
            IF maxCleanOffset # 0 /\ meta[3] > maxCleanOffset
            THEN PrepRet(d, Some(d.diskQueueStart), 0, 0, "clean exceed the max allowed")
            ELSE commit(EndInfo(fileNum, 0, meta[3], meta[1]), fileNum)
        byFile(fileNum, cleanOffset) ==
            IF fileNum <= d.diskQueueStart.FileNum THEN PrepRet(d, None, 0, 0, "")
            ELSE IF maxCleanOffset # 0 /\ cleanOffset > maxCleanOffset
            THEN PrepRet(d, None, 0, 0, "")
            ELSE IF (fileNum - 1) \notin DOMAIN d.offsetMeta
            THEN PrepRet(d, Some(d.diskQueueStart), 0, 0, "open offsetmeta: no such file")
            ELSE read(fileNum, d.offsetMeta[fileNum - 1])
        byOffset(cleanOffset) ==
            IF cleanOffset >= 0 THEN walked(cleanWalk(d, cleanOffset, d.diskQueueStart, 0))
            ELSE commit(d.diskQueueStart, 0)
        clipped(cleanOffset) ==
            byOffset(IF maxCleanOffset # 0 /\ cleanOffset > maxCleanOffset
                     THEN maxCleanOffset ELSE cleanOffset)
        given(e) ==
            IF e.hasFile
            THEN byFile(IF e.FileNum >= d.diskReadEnd.FileNum - 1
                        THEN d.diskReadEnd.FileNum - 1 ELSE e.FileNum,
                        e.virtualEnd)
            ELSE clipped(IF e.virtualEnd >= d.diskReadEnd.virtualEnd - d.diskReadEnd.Pos
                         THEN d.diskReadEnd.virtualEnd - d.diskReadEnd.Pos
                         ELSE e.virtualEnd)
    IN  IF cleanEndInfo = None THEN PrepRet(d, None, 0, 0, "")
        ELSE given(cleanEndInfo[1])

\* what CleanOldDataByRetention returns
CleanRet(d, newStart, err) == [d |-> d, newStart |-> newStart, err |-> err]

\* CleanOldDataByRetention removing the data files up to and including cleanFileNum
CleanOldDataByRetentionThrough(d, cleanEndInfo, noRealClean, maxCleanOffset) ==
    LET prepared(p) ==
            IF p.err # "" THEN CleanRet(p.d, None, p.err)
            ELSE CleanRet(
                   [p.d EXCEPT
                      !.files = [n \in DOMAIN @ \ (p.cleanStartFileNum..p.cleanFileNum)
                                   |-> @[n]]],
                   p.newStart, "")
    IN  prepared(prepareCleanByRetention(d, cleanEndInfo, noRealClean, maxCleanOffset))

\* CleanOldDataByRetention: remove the data files cleanStartFileNum..cleanFileNum-1 and
\* the sidecars of those not above cleanFileNum - MAX_QUEUE_OFFSET_META_DATA_KEEP
CleanOldDataByRetention(d, cleanEndInfo, noRealClean, maxCleanOffset) ==
    LET prepared(p) ==
            IF p.err # "" THEN CleanRet(p.d, None, p.err)
            ELSE CleanRet(
                   [p.d EXCEPT
                      !.files = [n \in DOMAIN @ \ (p.cleanStartFileNum..(p.cleanFileNum - 1))
                                   |-> @[n]],
                      !.offsetMeta =
                          [n \in DOMAIN @ \
                              {i \in p.cleanStartFileNum..(p.cleanFileNum - 1) :
                                  i <= p.cleanFileNum - MAX_QUEUE_OFFSET_META_DATA_KEEP}
                             |-> @[n]]],
                   p.newStart, "")
    IN  prepared(prepareCleanByRetention(d, cleanEndInfo, noRealClean, maxCleanOffset))

\* Flush
Flush(d) ==
    IF d.exitFlag = 1 THEN EndRet(d, "exiting")
    ELSE IF d.needSync THEN EndRet(sync(d), "")
    ELSE EndRet(d, "")

(***************************************************************************)
(* Byte strings.  A byte string is a sequence of symbols; a symbol stands  *)
(* for one fixed-width big-endian field (or one byte of a name or body),   *)
(* so that prefix tests and the byte order of keys are those of the code.  *)
(***************************************************************************)
\* uint16(x)
U16(x) == x % 65536

\* the order of two signed 64-bit values once written as big-endian uint64
ULess(x, y) == IF (x < 0) = (y < 0) THEN x < y ELSE y < 0

\* bytes.Compare(a, b) < 0
RECURSIVE BytesLess(_, _)
BytesLess(a, b) ==
    IF a = <<>> THEN b # <<>>
    ELSE IF b = <<>> THEN FALSE
    ELSE IF Head(a) = Head(b) THEN BytesLess(Tail(a), Tail(b))
    ELSE ULess(Head(a), Head(b))

\* bytes.HasPrefix(k, prefix)
HasPrefix(k, prefix) ==
    Len(k) >= Len(prefix) /\ SubSeq(k, 1, Len(prefix)) = prefix

\* the keys of a set in byte order
RECURSIVE SortKeys(_)
SortKeys(S) ==
    IF S = {} THEN <<>>
    ELSE LET k == CHOOSE x \in S : \A y \in S \ {x} : BytesLess(x, y)
         IN  <<k>> \o SortKeys(S \ {k})

\* bolt: Cursor.Seek(prefix) followed by Cursor.Next() to the end of the bucket
Seek(bucket, prefix) == SortKeys({k \in DOMAIN bucket : ~BytesLess(k, prefix)})

\* strconv.Itoa: the decimal digits, as ASCII codes
RECURSIVE Itoa(_)
Itoa(n) ==
    IF n < 0 THEN <<45>> \o Itoa(-n)
    ELSE IF n < 10 THEN <<48 + n>>
    ELSE Append(Itoa(n \div 10), 48 + (n % 10))

\* strconv.Atoi of an unsigned decimal string
RECURSIVE AtoiDigits(_, _)
AtoiDigits(s, acc) ==
    IF s = <<>> THEN [err |-> FALSE, v |-> acc]
    ELSE IF Head(s) < 48 \/ Head(s) > 57 THEN [err |-> TRUE, v |-> 0]
    ELSE AtoiDigits(Tail(s), acc * 10 + (Head(s) - 48))

\* strconv.Atoi
Atoi(s) ==
    IF s = <<>> THEN [err |-> TRUE, v |-> 0]
    ELSE IF Head(s) = 45
    THEN IF Tail(s) = <<>> THEN [err |-> TRUE, v |-> 0]
         ELSE LET a == AtoiDigits(Tail(s), 0) IN [err |-> a.err, v |-> 0 - a.v]
    ELSE AtoiDigits(s, 0)

(***************************************************************************)
(* Delayed messages and their keys                                         *)
(***************************************************************************)
MinDelayedType == 1
ChannelDelayed == 1
PubDelayed == 2
TransactionDelayed == 3
MaxDelayedType == 4

\* at most txMaxBatch + 1 rows are deleted in one transaction (a package variable,
\* 10000 in production; the model runs with a value its stores can exceed)
txMaxBatch == 1

\* '-'
DASH == 45

\* the Message fields the delayed queue reads and writes
Message(id, dt, ts, origID, ch, body) ==
    [ID |-> id, DelayedType |-> dt, DelayedTs |-> ts, DelayedOrigID |-> origID,
     DelayedChannel |-> ch, Body |-> body]

\* IsValidDelayedMessage
IsValidDelayedMessage(m) ==
    IF m.DelayedType = ChannelDelayed
    THEN m.DelayedOrigID > 0 /\ Len(m.DelayedChannel) > 0 /\ m.DelayedTs > 0
    ELSE IF m.DelayedType = PubDelayed THEN m.DelayedTs > 0
    ELSE IF m.DelayedType = TransactionDelayed THEN TRUE
    ELSE FALSE

\* Message.WriteDelayedTo: the fixed header fields, the channel name with its length,
\* then the body
WriteDelayedTo(m) ==
    <<m.ID, m.DelayedType, m.DelayedTs, m.DelayedOrigID, Len(m.DelayedChannel)>>
        \o m.DelayedChannel \o m.Body

\* bytes of the fixed header fields written by WriteDelayedTo
MsgHeaderLen == 6

\* the number of bytes of an encoded message (of any byte string, when it is too
\* short to be one)
EncodedLen(b) == IF Len(b) >= 5 THEN MsgHeaderLen + (Len(b) - 5) ELSE Len(b)

\* the bytes PutV2 appends for an encoded message: its 4-byte length, then the message
Framed(b) == <<EncodedLen(b)>> \o b

\* len(rawData) of a raw record: the 4-byte length field, then what follows it
RawLen(raw) == IF raw = <<>> THEN 0 ELSE 4 + EncodedLen(Tail(raw))

\* DecodeDelayedMessage
DecodeDelayedMessage(b) ==
    IF Len(b) < 5 THEN [err |-> TRUE, m |-> Message(0, 0, 0, 0, <<>>, <<>>)]
    ELSE IF b[5] < 0 \/ Len(b) < 5 + b[5] THEN [err |-> TRUE, m |-> Message(0, 0, 0, 0, <<>>, <<>>)]
    ELSE [err |-> FALSE,
          m |-> Message(b[1], b[2], b[3], b[4], SubSeq(b, 6, 5 + b[5]),
                        SubSeq(b, 6 + b[5], Len(b)))]

\* getDelayedMsgDBPrefixKey without the length of the channel name
getDelayedMsgDBPrefixKeyNoLen(dt, ch) == <<U16(dt), DASH>> \o ch

\* getDelayedMsgDBPrefixKey
getDelayedMsgDBPrefixKey(dt, ch) == <<U16(dt), DASH, U16(Len(ch))>> \o ch

\* getDelayedMsgDBKey
getDelayedMsgDBKey(dt, ch, ts, id) == <<U16(dt), DASH, U16(Len(ch))>> \o ch \o <<ts, id>>

\* getDelayedMsgDBIndexKey
getDelayedMsgDBIndexKey(dt, ch, id) == <<U16(dt), DASH, U16(Len(ch))>> \o ch \o <<id>>

\* getDelayedMsgDBIndexValue
getDelayedMsgDBIndexValue(ts, id) == <<1, ts, id>>

\* decodeDelayedMsgDBKey
decodeDelayedMsgDBKey(b) ==
    IF Len(b) < 5 THEN [err |-> TRUE, dt |-> 0, ts |-> 0, id |-> 0, ch |-> <<>>]
    ELSE IF Len(b) < 3 + b[3] + 2 THEN [err |-> TRUE, dt |-> 0, ts |-> 0, id |-> 0, ch |-> <<>>]
    ELSE [err |-> FALSE, dt |-> b[1], ts |-> b[4 + b[3]], id |-> b[5 + b[3]],
          ch |-> SubSeq(b, 4, 3 + b[3])]

\* the meta key of the counter of (dt, ch)
counterKey(dt, ch) == <<"counter_">> \o getDelayedMsgDBPrefixKey(dt, ch)

syncedOffsetKey == <<"synced_offset">>

(***************************************************************************)
(* The bolt store: three buckets, each a map from key to value.  A write   *)
(* transaction is an operator from store to store; when it returns an      *)
(* error the store is left as it was.                                      *)
(***************************************************************************)
NewStore == [msg |-> EmptyMap, idx |-> EmptyMap, meta |-> EmptyMap]

TxRet(s, err) == [s |-> s, err |-> err]

\* the counter read inside put and deleteBucketKey
readCounter(s, cntKey) == IF cntKey \in DOMAIN s.meta THEN s.meta[cntKey] ELSE 0

\* deleteMsgIndex
deleteMsgIndex(s, msgData) ==
    LET decoded(dec) ==
            IF dec.err THEN TxRet(s, "decode")
            ELSE TxRet([s EXCEPT !.idx = MapDel(@,
                            getDelayedMsgDBIndexKey(dec.m.DelayedType, dec.m.DelayedChannel,
                                                    dec.m.DelayedOrigID))], "")
    IN  decoded(DecodeDelayedMessage(msgData))

\* deleteBucketKey that leaves the counter as it is
deleteBucketKeyNoCount(s, dt, ch, ts, id) ==
    LET keyed(msgKey) ==
            IF msgKey \in DOMAIN s.msg
            THEN deleteMsgIndex([s EXCEPT !.msg = MapDel(@, msgKey)], s.msg[msgKey])
            ELSE TxRet(s, "bucket key not found")
    IN  keyed(getDelayedMsgDBKey(dt, ch, ts, id))

\* deleteBucketKey that takes a missing row for a deleted one
deleteBucketKeyMissingOk(s, dt, ch, ts, id) ==
    LET counted(x, cntKey) ==
            IF x.err # "" THEN x
            ELSE TxRet([x.s EXCEPT !.meta = MapPut(@, cntKey, readCounter(x.s, cntKey) - 1)], "")
        keyed(msgKey) ==
            IF msgKey \in DOMAIN s.msg
            THEN counted(deleteMsgIndex([s EXCEPT !.msg = MapDel(@, msgKey)], s.msg[msgKey]),
                         counterKey(dt, ch))
            ELSE counted(TxRet(s, ""), counterKey(dt, ch))
    IN  keyed(getDelayedMsgDBKey(dt, ch, ts, id))

\* deleteBucketKey
deleteBucketKey(s, dt, ch, ts, id) ==
    LET counted(x, cntKey) ==
            IF x.err # "" THEN x
            ELSE IF readCounter(x.s, cntKey) > 0
            THEN TxRet([x.s EXCEPT !.meta = MapPut(@, cntKey, @[cntKey] - 1)], "")
            ELSE x
        keyed(msgKey) ==
            IF msgKey \in DOMAIN s.msg
            THEN counted(deleteMsgIndex([s EXCEPT !.msg = MapDel(@, msgKey)], s.msg[msgKey]),
                         counterKey(dt, ch))
            ELSE TxRet(s, "bucket key not found")
    IN  keyed(getDelayedMsgDBKey(dt, ch, ts, id))

(***************************************************************************)
(* DelayQueue                                                              *)
(***************************************************************************)
\* the queue right after NewDelayQueue on an empty data directory (no id generator
\* is injected: ids come from defaultIDSeq)
NewDelayQueue(syncEvery) ==
    [ backend      |-> NewDiskQueueWriter,
      exitFlag     |-> 0,
      defaultIDSeq |-> 0,
      needFlush    |-> 0,
      putBuffer    |-> <<>>,
      kvStore      |-> NewStore,
      SyncEvery    |-> syncEvery,
      lastSyncCnt  |-> 0,
      needFixData  |-> 0,
      oldestChannelDelayedTs |-> EmptyMap ]

\* what put and the calls around it return
PutRet(qq, id, offset, writeBytes, dend, err) ==
    [q |-> qq, id |-> id, offset |-> offset, writeBytes |-> writeBytes, dend |-> dend,
     err |-> err]

\* what the calls that return only an error return
QRet(qq, err) == [q |-> qq, err |-> err]

\* retrieveMetaData: the write end and the read end are the end that meta.dat holds
retrieveMetaData(d) ==
    IF d.metaData = None THEN d
    ELSE [d EXCEPT !.diskWriteEnd = d.metaData[1], !.diskReadEnd = d.metaData[1]]

\* the loop of initQueueReadStart at the data file fileNum
RECURSIVE initQueueScan(_, _, _)
initQueueScan(d, fileNum, needFix) ==
    LET next(n) ==
            IF n > d.diskWriteEnd.FileNum
            THEN EndRet([d EXCEPT !.diskQueueStart = d.diskWriteEnd],
                        "init queue start should be fixed")
            ELSE initQueueScan(d, n, TRUE)
        found ==
            IF ~needFix
            THEN EndRet([d EXCEPT !.diskQueueStart = EndInfo(fileNum, 0, 0, 0)], "")
            ELSE EndRet([d EXCEPT !.diskQueueStart =
                                      EndInfo(fileNum, 0, d.offsetMeta[fileNum - 1][3],
                                              d.offsetMeta[fileNum - 1][1])], "")
    IN  IF fileNum \notin DOMAIN d.files
        THEN IF d.diskWriteEnd.FileNum = 0 /\ d.diskWriteEnd.Pos = 0 THEN EndRet(d, "")
             ELSE next(fileNum + 1)
        ELSE IF needFix /\ (fileNum - 1) \notin DOMAIN d.offsetMeta THEN next(fileNum + 1)
        ELSE found

\* initQueueReadStart: the queue start is the one meta.extra.dat holds, or is found by
\* the scan of the data files
initQueueReadStart(d) ==
    IF d.extraMeta # None THEN EndRet([d EXCEPT !.diskQueueStart = d.extraMeta[1]], "")
    ELSE initQueueScan(d, 0, FALSE)

\* newDiskQueueWriter on the data directory that the writer disk has left
newDiskQueueWriter(disk, readOnly) ==
    LET inited(x) ==
            IF x.err # "" THEN x
            ELSE IF ~readOnly THEN EndRet(saveExtraMeta(x.d), "")
            ELSE x
    IN  inited(initQueueReadStart(retrieveMetaData(
                   [NewDiskQueueWriter EXCEPT !.files = disk.files,
                                              !.offsetMeta = disk.offsetMeta,
                                              !.rollData = disk.rollData,
                                              !.metaData = disk.metaData,
                                              !.extraMeta = disk.extraMeta])))

\* newDelayQueue on the data directory that the engine old has left: the engine, or
\* None when the writer cannot be made
newDelayQueue(old) ==
    LET made(w) ==
            IF w.err # "" THEN [q |-> None, err |-> w.err]
            ELSE [q |-> Some([NewDelayQueue(old.SyncEvery) EXCEPT
                                  !.backend = w.d, !.kvStore = old.kvStore]),
                  err |-> ""]
    IN  made(newDiskQueueWriter(old.backend, FALSE))

\* IsDataNeedFix
IsDataNeedFix(qq) == qq.needFixData = 1

\* flush
flush(qq) ==
    IF qq.needFlush # 1 THEN qq
    ELSE [qq EXCEPT !.needFlush = 0,
                    !.lastSyncCnt = qq.backend.diskWriteEnd.totalMsgCnt,
                    !.backend = Flush(@).d]

\* the closure put passes to kvStore.Update, counting every record it is handed
putTxCounting(s, m, buf, dend) ==
    LET counted(w, cntKey) ==
            IF w.err # "" THEN TxRet(s, w.err)
            ELSE TxRet([w.s EXCEPT !.meta =
                           MapPut(MapPut(@, cntKey, readCounter(w.s, cntKey) + 1),
                                  syncedOffsetKey, Itoa(dend.virtualEnd))], "")
        indexed(b) ==
            IF b.err # "" THEN b
            ELSE TxRet([b.s EXCEPT !.idx = MapPut(@,
                           getDelayedMsgDBIndexKey(m.DelayedType, m.DelayedChannel,
                                                   m.DelayedOrigID),
                           getDelayedMsgDBIndexValue(m.DelayedTs, m.DelayedOrigID))], "")
        keyed(msgKey) ==
            counted(IF msgKey \in DOMAIN s.msg /\ s.msg[msgKey] = buf
                    THEN TxRet(s, "")
                    ELSE indexed(IF msgKey \in DOMAIN s.msg
                                 THEN deleteMsgIndex([s EXCEPT !.msg = MapPut(@, msgKey, buf)],
                                                     s.msg[msgKey])
                                 ELSE TxRet([s EXCEPT !.msg = MapPut(@, msgKey, buf)], "")),
                    counterKey(m.DelayedType, m.DelayedChannel))
    IN  keyed(getDelayedMsgDBKey(m.DelayedType, m.DelayedChannel, m.DelayedTs, m.ID))

\* the closure put passes to kvStore.Update
putTx(s, m, buf, dend) ==
    LET counted(w, exists, cntKey) ==
            IF w.err # "" THEN TxRet(s, w.err)
            ELSE TxRet([w.s EXCEPT !.meta =
                           MapPut(IF exists THEN @
                                  ELSE MapPut(@, cntKey, readCounter(w.s, cntKey) + 1),
                                  syncedOffsetKey, Itoa(dend.virtualEnd))], "")
        indexed(b) ==
            IF b.err # "" THEN b
            ELSE TxRet([b.s EXCEPT !.idx = MapPut(@,
                           getDelayedMsgDBIndexKey(m.DelayedType, m.DelayedChannel,
                                                   m.DelayedOrigID),
                           getDelayedMsgDBIndexValue(m.DelayedTs, m.DelayedOrigID))], "")
        keyed(msgKey) ==
            counted(IF msgKey \in DOMAIN s.msg /\ s.msg[msgKey] = buf
                    THEN TxRet(s, "")
                    ELSE indexed(IF msgKey \in DOMAIN s.msg
                                 THEN deleteMsgIndex([s EXCEPT !.msg = MapPut(@, msgKey, buf)],
                                                     s.msg[msgKey])
                                 ELSE TxRet([s EXCEPT !.msg = MapPut(@, msgKey, buf)], "")),
                    msgKey \in DOMAIN s.msg,
                    counterKey(m.DelayedType, m.DelayedChannel))
    IN  keyed(getDelayedMsgDBKey(m.DelayedType, m.DelayedChannel, m.DelayedTs, m.ID))

\* put after the log append: oldest[channel] is left alone
updateOldestNever(oldest, m) == oldest

\* put after the commit: lower the oldest-delivery hint of the message's channel
updateOldest(oldest, m) ==
    IF m.DelayedType = ChannelDelayed
    THEN IF \/ m.DelayedChannel \notin DOMAIN oldest
            \/ oldest[m.DelayedChannel] = 0
            \/ m.DelayedTs < oldest[m.DelayedChannel]
         THEN MapPut(oldest, m.DelayedChannel, m.DelayedTs)
         ELSE oldest
    ELSE oldest

\* put from the store transaction on (the log append is done)
putIndex(qq, m, offset, writeBytes, dend, commitErr) ==
    LET indexed(q1) ==
            PutRet(IF \/ q1.SyncEvery = 1
                      \/ dend.totalMsgCnt - q1.lastSyncCnt >= q1.SyncEvery
                   THEN flush(q1) ELSE q1,
                   m.ID, offset, writeBytes, dend, "")
        committed(t) ==
            IF t.err # ""
            THEN PutRet(qq, m.ID, offset, writeBytes, dend, t.err)
            ELSE indexed([qq EXCEPT !.kvStore = t.s,
                                    !.oldestChannelDelayedTs = updateOldest(@, m)])
    IN  committed(IF commitErr THEN TxRet(qq.kvStore, "commit")
                  ELSE putTx(qq.kvStore, m, qq.putBuffer, dend))

\* put.  rawData is None (nil) or Some(bytes); io names the calls that fail in this
\* run: io.write (the buffered write of the log), io.commit (the store transaction)
put(qq, m0, rawData, checkSize, io) ==
    LET rawWritten(qb, m, w) ==
            IF checkSize > 0 /\ checkSize # w.writeBytes
            THEN PutRet([qb EXCEPT !.backend = w.d], 0, 0, 0, w.dend, w.err)
            \* the error of PutRawV2 lives in the inner scope: the outer err tested
            \* after the append is still nil
            ELSE putIndex([qb EXCEPT !.backend = w.d, !.needFlush = 1], m, w.offset,
                          w.writeBytes, w.dend, io.commit)
        written(qb, m, w) ==
            IF w.err # ""
            THEN PutRet([qb EXCEPT !.backend = w.d, !.needFlush = 1], m.ID, w.offset,
                        w.writeBytes, w.dend, w.err)
            ELSE putIndex([qb EXCEPT !.backend = w.d, !.needFlush = 1], m, w.offset,
                          w.writeBytes, w.dend, io.commit)
        buffered(qb, m) ==
            IF rawData # None
            THEN rawWritten(qb, m, PutRawV2(qb.backend, RawLen(rawData[1]), 1, io.write))
            ELSE IF checkSize > 0 /\ checkSize # EncodedLen(qb.putBuffer) + 4
            THEN PutRet([qb EXCEPT !.needFlush = 1], m.ID, 0, 0, ZeroEnd,
                        "write message size mismatch")
            ELSE written(qb, m, PutV2(qb.backend, EncodedLen(qb.putBuffer), io.write))
        identified(q1, m) == buffered([q1 EXCEPT !.putBuffer = WriteDelayedTo(m)], m)
        decoded(dec) ==
            IF dec.err THEN PutRet(qq, 0, 0, 0, ZeroEnd, "decode")
            ELSE identified(IF dec.m.ID <= 0 THEN [qq EXCEPT !.defaultIDSeq = @ + 1] ELSE qq,
                            IF dec.m.ID <= 0 THEN [dec.m EXCEPT !.ID = qq.defaultIDSeq + 1]
                            ELSE dec.m)
    IN  IF rawData # None /\ RawLen(rawData[1]) < 4
        THEN PutRet(qq, 0, 0, 0, ZeroEnd, "invalid raw message data")
        ELSE decoded(IF rawData # None THEN DecodeDelayedMessage(Tail(rawData[1]))
                     ELSE [err |-> FALSE, m |-> m0])

\* PutDelayMessage
PutDelayMessage(qq, m, io) ==
    IF qq.exitFlag = 1 THEN PutRet(qq, 0, 0, 0, ZeroEnd, "exiting")
    ELSE IF m.ID > 0 THEN PutRet(qq, 0, 0, 0, ZeroEnd, "invalid message id")
    ELSE IF ~IsValidDelayedMessage(m) THEN PutRet(qq, 0, 0, 0, ZeroEnd, "invalid delayed message")
    ELSE put(qq, m, None, 0, io)

\* RollbackNoLock
RollbackNoLock(qq, vend, diffCnt) ==
    LET rolled(x) == QRet([qq EXCEPT !.backend = x.d, !.needFlush = 1], x.err)
    IN  rolled(RollbackWriteV2(qq.backend, vend, diffCnt))

\* ResetBackendEndNoLock
ResetBackendEndNoLock(qq, vend, totalCnt) ==
    LET reset(x) == QRet([qq EXCEPT !.backend = x.d, !.needFlush = 1], x.err)
    IN  IF /\ qq.backend.diskWriteEnd.virtualEnd = vend
           /\ qq.backend.diskWriteEnd.totalMsgCnt = totalCnt
        THEN QRet(qq, "")
        ELSE reset(ResetWriteEndV2(qq.backend, vend, totalCnt))

\* ResetBackendWithQueueStartNoLock
ResetBackendWithQueueStartNoLock(qq, queueStartOffset, queueStartCnt) ==
    LET reset(x) == QRet([qq EXCEPT !.backend = x.d, !.needFlush = 1], "")
    IN  IF queueStartOffset < 0 \/ queueStartCnt < 0
        THEN QRet(qq, "queue start should not less than 0")
        ELSE reset(ResetWriteWithQueueStart(qq.backend, queueStartOffset, queueStartCnt))

\* PutRawDataOnReplica that skips the comparison of offset with the write end
PutRawDataOnReplicaNoCheck(qq, rawData, offset, checkSize, msgNum, io) ==
    LET done(x) ==
            IF x.err # ""
            THEN PutRet(ResetBackendEndNoLock(x.q, qq.backend.diskWriteEnd.virtualEnd,
                                              qq.backend.diskWriteEnd.totalMsgCnt).q,
                        0, 0, 0, ZeroEnd, x.err)
            ELSE PutRet(x.q, x.id, x.offset, x.writeBytes, x.dend, "")
    IN  done(put(qq, Message(0, 0, 0, 0, <<>>, <<>>), Some(rawData), checkSize, io))

\* PutRawDataOnReplica
PutRawDataOnReplica(qq, rawData, offset, checkSize, msgNum, io) ==
    LET done(x) ==
            IF x.err # ""
            THEN PutRet(ResetBackendEndNoLock(x.q, qq.backend.diskWriteEnd.virtualEnd,
                                              qq.backend.diskWriteEnd.totalMsgCnt).q,
                        0, 0, 0, ZeroEnd, x.err)
            ELSE PutRet(x.q, x.id, x.offset, x.writeBytes, x.dend, "")
    IN  IF qq.exitFlag = 1 THEN PutRet(qq, 0, 0, 0, ZeroEnd, "exiting")
        ELSE IF qq.backend.diskWriteEnd.virtualEnd # offset
        THEN PutRet(qq, 0, 0, 0, ZeroEnd, "write offset mismatch")
        ELSE IF msgNum # 1
        THEN PutRet(qq, 0, 0, 0, ZeroEnd, "delayed raw message number must be 1.")
        ELSE done(put(qq, Message(0, 0, 0, 0, <<>>, <<>>), Some(rawData), checkSize, io))

\* PutMessageOnReplica
PutMessageOnReplica(qq, m, offset, checkSize, io) ==
    LET done(x) ==
            IF x.err # ""
            THEN PutRet(ResetBackendEndNoLock(x.q, qq.backend.diskWriteEnd.virtualEnd,
                                              qq.backend.diskWriteEnd.totalMsgCnt).q,
                        0, 0, 0, ZeroEnd, x.err)
            ELSE PutRet(x.q, x.id, x.offset, x.writeBytes, x.dend, "")
    IN  IF qq.exitFlag = 1 THEN PutRet(qq, 0, 0, 0, ZeroEnd, "exiting")
        ELSE IF qq.backend.diskWriteEnd.virtualEnd # offset
        THEN PutRet(qq, 0, 0, 0, ZeroEnd, "write offset mismatch")
        ELSE IF ~IsValidDelayedMessage(m)
        THEN PutRet(qq, 0, 0, 0, ZeroEnd, "invalid delayed message")
        ELSE done(put(qq, m, None, checkSize, io))

\* the cursor loop of PeekRecentTimeoutWithFilter over the keys left to visit:
\* acc.oldest is the loop's oldest, acc.results the messages copied out so far
RECURSIVE peekLoop(_, _, _, _, _, _, _, _)
peekLoop(s, keys, prefix, n, peekTs, filterType, filterChannel, acc) ==
    LET copied(acc1, dec) ==
            IF dec.err
            THEN peekLoop(s, Tail(keys), prefix, n, peekTs, filterType, filterChannel, acc1)
            ELSE IF filterType >= 0 /\ filterType # dec.m.DelayedType
            THEN peekLoop(s, Tail(keys), prefix, n, peekTs, filterType, filterChannel, acc1)
            ELSE peekLoop(s, Tail(keys), prefix, n, peekTs, filterType, filterChannel,
                          [acc1 EXCEPT !.results = Append(@, dec.m)])
        seen(dk, acc1) ==
            IF dk.ts > peekTs \/ Len(acc1.results) >= n THEN acc1
            ELSE IF filterChannel # <<>> /\ dk.ch # filterChannel
            THEN peekLoop(s, Tail(keys), prefix, n, peekTs, filterType, filterChannel, acc1)
            ELSE copied(acc1, DecodeDelayedMessage(s.msg[Head(keys)]))
        keyed(dk) ==
            IF dk.err
            THEN peekLoop(s, Tail(keys), prefix, n, peekTs, filterType, filterChannel, acc)
            ELSE seen(dk, IF /\ acc.oldest = 0
                             /\ filterType = ChannelDelayed
                             /\ filterChannel # <<>>
                          THEN [acc EXCEPT !.oldest = dk.ts] ELSE acc)
    IN  IF keys = <<>> \/ ~HasPrefix(Head(keys), prefix) THEN acc
        ELSE keyed(decodeDelayedMsgDBKey(Head(keys)))

\* the test PeekRecentTimeoutWithFilter makes before it opens the store
peekIgnoredByHint(oldest, peekTs, filterType, filterChannel) ==
    /\ filterType = ChannelDelayed
    /\ filterChannel # <<>>
    /\ filterChannel \in DOMAIN oldest
    /\ oldest[filterChannel] > peekTs

\* PeekRecentTimeoutWithFilter that looks at the channel and the deadline of the rows
\* and not at their type
PeekOfAnyType(qq, n, peekTs, filterType, filterChannel) ==
    LET viewed(acc) == [q |-> qq, results |-> acc.results, err |-> ""]
    IN  viewed(peekLoop(qq.kvStore, Seek(qq.kvStore.msg, <<>>), <<>>, n, peekTs,
                        -1, filterChannel, [oldest |-> 0, results |-> <<>>]))

\* PeekRecentTimeoutWithFilter with a results slice of length n
PeekRecentTimeoutWithFilter(qq, n, peekTs, filterType, filterChannel) ==
    LET viewed(acc) ==
            [q |-> IF acc.oldest > 0
                   THEN [qq EXCEPT !.oldestChannelDelayedTs =
                                       MapPut(@, filterChannel, acc.oldest)]
                   ELSE qq,
             results |-> acc.results, err |-> ""]
        seek(prefix) ==
            viewed(peekLoop(qq.kvStore, Seek(qq.kvStore.msg, prefix), prefix, n, peekTs,
                            filterType, filterChannel, [oldest |-> 0, results |-> <<>>]))
    IN  IF peekIgnoredByHint(qq.oldestChannelDelayedTs, peekTs, filterType, filterChannel)
        THEN [q |-> qq, results |-> <<>>, err |-> ""]
        ELSE seek(IF filterType > 0 THEN getDelayedMsgDBPrefixKey(filterType, filterChannel)
                  ELSE <<>>)

\* GetSyncedOffset
GetSyncedOffset(qq) ==
    LET parsed(a) == [synced |-> a.v, err |-> IF a.err THEN "atoi" ELSE ""]
    IN  parsed(Atoi(IF syncedOffsetKey \in DOMAIN qq.kvStore.meta
                    THEN qq.kvStore.meta[syncedOffsetKey] ELSE <<>>))

\* GetCurrentDelayedCnt
GetCurrentDelayedCnt(qq, dt, channel) ==
    IF counterKey(dt, channel) \in DOMAIN qq.kvStore.meta
    THEN qq.kvStore.meta[counterKey(dt, channel)] ELSE 0

\* IsChannelMessageDelayed
IsChannelMessageDelayed(qq, msgID, ch) ==
    getDelayedMsgDBIndexKey(ChannelDelayed, ch, msgID) \in DOMAIN qq.kvStore.idx

\* ConfirmedMessage that deletes at the message's own id
ConfirmedMessageByID(qq, msg) ==
    LET done(t) == IF t.err # "" THEN QRet(qq, t.err) ELSE QRet([qq EXCEPT !.kvStore = t.s], "")
    IN  done(deleteBucketKey(qq.kvStore, msg.DelayedType, msg.DelayedChannel,
                             msg.DelayedTs, msg.ID))

\* ConfirmedMessage
ConfirmedMessage(qq, msg) ==
    LET done(t) == IF t.err # "" THEN QRet(qq, t.err) ELSE QRet([qq EXCEPT !.kvStore = t.s], "")
    IN  done(deleteBucketKey(qq.kvStore, msg.DelayedType, msg.DelayedChannel,
                             msg.DelayedTs, msg.DelayedOrigID))

\* one transaction of emptyDelayedUntil over the keys left to visit:
\* acc.s is the store inside the transaction, acc.batched the rows deleted
RECURSIVE emptyUntilTx(_, _, _, _, _, _, _)
emptyUntilTx(keys, prefix, dt, peekTs, id, ch, acc) ==
    LET deleted(t) ==
            IF t.err # "" /\ t.err # "bucket key not found"
            THEN [acc EXCEPT !.err = t.err]
            ELSE emptyUntilTx(Tail(keys), prefix, dt, peekTs, id, ch,
                              [acc EXCEPT !.s = t.s, !.batched = @ + 1])
        keyed(dk) ==
            IF dk.err THEN emptyUntilTx(Tail(keys), prefix, dt, peekTs, id, ch, acc)
            ELSE IF dk.ts > peekTs THEN acc
            ELSE IF dk.ts = peekTs /\ dk.id >= id THEN acc
            ELSE IF dk.ch # ch THEN emptyUntilTx(Tail(keys), prefix, dt, peekTs, id, ch, acc)
            ELSE deleted(deleteBucketKey(acc.s, dt, ch, dk.ts, dk.id))
    IN  IF keys = <<>> \/ ~HasPrefix(Head(keys), prefix) THEN acc
        ELSE IF acc.batched > txMaxBatch THEN acc
        ELSE keyed(decodeDelayedMsgDBKey(Head(keys)))

\* emptyDelayedUntil that stops after its first transaction
emptyUntilLoopOnce(s, dt, peekTs, id, ch) ==
    LET updated(acc) ==
            IF acc.err # "" THEN TxRet(s, acc.err) ELSE TxRet(acc.s, "")
        seek(prefix) ==
            updated(emptyUntilTx(Seek(s.msg, prefix), prefix, dt, peekTs, id, ch,
                                 [s |-> s, batched |-> 0, err |-> ""]))
    IN  seek(getDelayedMsgDBPrefixKey(dt, ch))

\* the transactions of emptyDelayedUntil, one after the other, until one deletes nothing
RECURSIVE emptyUntilLoop(_, _, _, _, _)
emptyUntilLoop(s, dt, peekTs, id, ch) ==
    LET updated(acc) ==
            IF acc.err # "" THEN TxRet(s, acc.err)
            ELSE IF acc.batched = 0 THEN TxRet(acc.s, "")
            ELSE emptyUntilLoop(acc.s, dt, peekTs, id, ch)
        seek(prefix) ==
            updated(emptyUntilTx(Seek(s.msg, prefix), prefix, dt, peekTs, id, ch,
                                 [s |-> s, batched |-> 0, err |-> ""]))
    IN  seek(getDelayedMsgDBPrefixKey(dt, ch))

\* emptyDelayedUntil
emptyDelayedUntil(qq, dt, peekTs, id, ch) ==
    LET emptied(t) ==
            IF t.err # "" THEN QRet([qq EXCEPT !.kvStore = t.s], t.err)
            ELSE QRet([qq EXCEPT !.kvStore = t.s,
                                 !.oldestChannelDelayedTs =
                                     IF dt = ChannelDelayed /\ ch # <<>>
                                     THEN MapPut(@, ch, peekTs) ELSE @], "")
    IN  emptied(emptyUntilLoop(qq.kvStore, dt, peekTs, id, ch))

\* one transaction of emptyAllDelayedType that deletes every row of the type it visits,
\* whatever its channel
RECURSIVE emptyAllTxAnyChannel(_, _, _, _, _)
emptyAllTxAnyChannel(keys, prefix, dt, ch, acc) ==
    LET deleted(t) ==
            IF t.err # "" /\ t.err # "bucket key not found"
            THEN [acc EXCEPT !.err = t.err]
            ELSE emptyAllTxAnyChannel(Tail(keys), prefix, dt, ch,
                                      [acc EXCEPT !.s = t.s, !.batched = @ + 1])
        keyed(dk) ==
            IF dk.err THEN emptyAllTxAnyChannel(Tail(keys), prefix, dt, ch, acc)
            ELSE IF dk.dt # U16(dt) THEN emptyAllTxAnyChannel(Tail(keys), prefix, dt, ch, acc)
            ELSE deleted(deleteBucketKey(acc.s, dk.dt, dk.ch, dk.ts, dk.id))
    IN  IF keys = <<>> THEN acc
        ELSE IF acc.batched > txMaxBatch THEN acc
        ELSE keyed(decodeDelayedMsgDBKey(Head(keys)))

\* one transaction of emptyAllDelayedType over the keys left to visit
RECURSIVE emptyAllTx(_, _, _, _, _)
emptyAllTx(keys, prefix, dt, ch, acc) ==
    LET deleted(t) ==
            IF t.err # "" /\ t.err # "bucket key not found"
            THEN [acc EXCEPT !.err = t.err]
            ELSE emptyAllTx(Tail(keys), prefix, dt, ch,
                            [acc EXCEPT !.s = t.s, !.batched = @ + 1])
        keyed(dk) ==
            IF dk.err THEN emptyAllTx(Tail(keys), prefix, dt, ch, acc)
            ELSE IF dk.dt # U16(dt) THEN emptyAllTx(Tail(keys), prefix, dt, ch, acc)
            ELSE IF ch # <<>> /\ dk.ch # ch THEN emptyAllTx(Tail(keys), prefix, dt, ch, acc)
            ELSE deleted(deleteBucketKey(acc.s, dk.dt, dk.ch, dk.ts, dk.id))
    IN  IF keys = <<>> \/ ~HasPrefix(Head(keys), prefix) THEN acc
        ELSE IF acc.batched > txMaxBatch THEN acc
        ELSE keyed(decodeDelayedMsgDBKey(Head(keys)))

\* the transactions of emptyAllDelayedType, until one deletes nothing
RECURSIVE emptyAllLoop(_, _, _)
emptyAllLoop(s, dt, ch) ==
    LET updated(acc) ==
            IF acc.err # "" THEN TxRet(s, acc.err)
            ELSE IF acc.batched = 0 THEN TxRet(acc.s, "")
            ELSE emptyAllLoop(acc.s, dt, ch)
        seek(prefix) ==
            updated(emptyAllTx(Seek(s.msg, prefix), prefix, dt, ch,
                               [s |-> s, batched |-> 0, err |-> ""]))
    IN  seek(getDelayedMsgDBPrefixKey(dt, ch))

\* time.Hour, in the unit of the model's clock
Hour == 2

\* PeekAll with every row due at once, whatever its delivery time
PeekAllDueNow(qq, n, now) == PeekRecentTimeoutWithFilter(qq, n, now, -1, <<>>)

\* PeekAll with a results slice of length n, called at time now: the deadline is a year
\* from now (time.Hour*24*365)
PeekAll(qq, n, now) == PeekRecentTimeoutWithFilter(qq, n, now + 24 * 365 * Hour, -1, <<>>)

\* emptyAllDelayedType; now is time.Now()
emptyAllDelayedType(qq, dt, ch, now) ==
    LET emptied(t) ==
            IF t.err # "" THEN QRet([qq EXCEPT !.kvStore = t.s], t.err)
            ELSE QRet([qq EXCEPT !.kvStore = t.s,
                                 !.oldestChannelDelayedTs =
                                     IF dt = ChannelDelayed /\ ch # <<>>
                                     THEN MapPut(@, ch, now + Hour) ELSE @], "")
    IN  emptied(emptyAllLoop(qq.kvStore, dt, ch))

\* EmptyDelayedType
EmptyDelayedType(qq, dt, now) == emptyAllDelayedType(qq, dt, <<>>, now)

\* EmptyDelayedChannel
EmptyDelayedChannel(qq, ch, now) ==
    IF ch = <<>> THEN QRet(qq, "empty delayed channel name should be given")
    ELSE emptyAllDelayedType(qq, ChannelDelayed, ch, now)

\* the first loop of UpdateConsumedState: emptyDelayedUntil at every key of the list
RECURSIVE updateByKeys(_, _)
updateByKeys(qq, keyList) ==
    LET keyed(dk) ==
            IF dk.err THEN updateByKeys(qq, Tail(keyList))
            ELSE updateByKeys(emptyDelayedUntil(qq, dk.dt, dk.ts, dk.id, dk.ch).q,
                              Tail(keyList))
    IN  IF keyList = <<>> THEN qq
        ELSE keyed(decodeDelayedMsgDBKey(Head(keyList)))

\* the second loop of UpdateConsumedState over the types left to visit
RECURSIVE updateByTypes(_, _, _, _)
updateByTypes(qq, cntList, left, now) ==
    LET visit(dt) ==
            updateByTypes(IF cntList[dt] = 0 /\ dt # ChannelDelayed
                          THEN EmptyDelayedType(qq, dt, now).q ELSE qq,
                          cntList, left \ {dt}, now)
    IN  IF left = {} THEN qq
        ELSE visit(CHOOSE x \in left : TRUE)

\* the third loop of UpdateConsumedState over the channels left to visit
RECURSIVE updateByChannels(_, _, _, _)
updateByChannels(qq, channelCntList, left, now) ==
    LET visit(ch) ==
            updateByChannels(IF channelCntList[ch] = 0
                             THEN EmptyDelayedChannel(qq, ch, now).q ELSE qq,
                             channelCntList, left \ {ch}, now)
    IN  IF left = {} THEN qq
        ELSE visit(CHOOSE x \in left : TRUE)

\* UpdateConsumedState
UpdateConsumedState(qq, keyList, cntList, channelCntList, now) ==
    QRet(updateByChannels(updateByTypes(updateByKeys(qq, keyList),
                                        cntList, DOMAIN cntList, now),
                          channelCntList, DOMAIN channelCntList, now), "")

\* reOpenStore that leaves the hints of the engine as they are
reOpenStoreKeepHints(qq, fileContent) ==
    [qq EXCEPT !.kvStore = fileContent]

\* reOpenStore: open the file now at the store's path; the hints start empty
reOpenStore(qq, fileContent) ==
    [qq EXCEPT !.kvStore = fileContent, !.oldestChannelDelayedTs = EmptyMap]

\* BackupKVStoreTo: the 8-byte size, then the store file
BackupKVStoreTo(qq) == <<"size", qq.kvStore>>

\* RestoreKVStoreFrom
RestoreKVStoreFrom(qq, body) ==
    IF Len(body) < 1 THEN QRet(qq, "EOF")
    ELSE IF Len(body) < 2 THEN QRet(qq, "EOF in CopyN")
    ELSE QRet(reOpenStore(qq, body[2]), "")

\* ForceFlush
ForceFlush(qq) == flush(qq)

\* the store file is compacted when it has reached CompactThreshold bytes and the live
\* counters sum to no more than CompactCntThreshold; compactBolt commits whenever the
\* copied keys and values exceed TxMaxSize (package variables, 16 MiB, 20000 and 65536
\* in production; the model runs with values its stores can reach)
CompactThreshold == 16
CompactCntThreshold == 2
TxMaxSize == 12

\* the keys and values walkBolt visits, as their sizes: each bucket's name, then its pairs
walkSizes(s) ==
    <<1>> \o [i \in 1..Cardinality(DOMAIN s.msg) |->
                 Len(SortKeys(DOMAIN s.msg)[i]) + Len(s.msg[SortKeys(DOMAIN s.msg)[i]])]
      \o <<1>> \o [i \in 1..Cardinality(DOMAIN s.idx) |->
                 Len(SortKeys(DOMAIN s.idx)[i]) + Len(s.idx[SortKeys(DOMAIN s.idx)[i]])]
      \o <<1>> \o [i \in 1..Cardinality(DOMAIN s.meta \ {syncedOffsetKey}) |->
                 Len(SortKeys(DOMAIN s.meta \ {syncedOffsetKey})[i]) + 8]
      \o (IF syncedOffsetKey \in DOMAIN s.meta
          THEN <<1 + Len(s.meta[syncedOffsetKey])>> ELSE <<>>)

\* compactBolt's walk: whether some key makes it commit and start a new transaction
RECURSIVE commitsEarly(_, _, _)
commitsEarly(sizes, i, size) ==
    IF i > Len(sizes) THEN FALSE
    ELSE IF size + sizes[i] > TxMaxSize /\ TxMaxSize # 0 THEN TRUE
    ELSE commitsEarly(sizes, i + 1, size + sizes[i])

\* compactBolt that leaves the meta bucket empty
compactBoltNoMeta(src, slow) ==
    TxRet([msg |-> src.msg, idx |-> src.idx, meta |-> EmptyMap], "")

\* compactBolt: copy every bucket, key and value of src into the destination file; it
\* gives up when maxCompactTime has passed (slow) at a commit between two keys
compactBolt(src, slow) ==
    IF slow /\ commitsEarly(walkSizes(src), 1, 0)
    THEN TxRet(src, "compact timeout")
    ELSE TxRet([msg  |-> [k \in DOMAIN src.msg |-> src.msg[k]],
                idx  |-> [k \in DOMAIN src.idx |-> src.idx[k]],
                meta |-> [k \in DOMAIN src.meta |-> src.meta[k]]], "")

\* the sum of the counter_ cells of the meta bucket
RECURSIVE sumCounters(_, _)
sumCounters(s, keys) ==
    IF keys = {} THEN 0
    ELSE LET k == CHOOSE x \in keys : TRUE
         IN  (IF k = syncedOffsetKey THEN 0 ELSE s.meta[k]) + sumCounters(s, keys \ {k})

\* the checks of compactStore with a counter sum that must stay below the threshold
compactSkipsAtThreshold(qq, force, env) ==
    /\ ~force
    /\ \/ env.fileSize < CompactThreshold
       \/ sumCounters(qq.kvStore, DOMAIN qq.kvStore.meta) >= CompactCntThreshold

\* the checks compactStore makes before it copies, when it is not forced: the size of the
\* store file and the sum of the counters
compactSkips(qq, force, env) ==
    /\ ~force
    /\ \/ env.fileSize < CompactThreshold
       \/ sumCounters(qq.kvStore, DOMAIN qq.kvStore.meta) > CompactCntThreshold

\* the end of compactStore, under dbLock: close the store, rename the copy dst to the
\* store's path, reopen
compactSwap(qq, dst, env) ==
    IF env.rename THEN QRet(reOpenStore(qq, qq.kvStore), "rename")
    ELSE QRet(reOpenStore(qq, dst), "")

\* compactStore.  env names what the call finds: env.fileSize (os.Stat of the store
\* file), env.slow (the copy takes longer than maxCompactTime), env.rename (os.Rename
\* fails)
compactStore(qq, force, env) ==
    LET copied(c) ==
            IF c.err # "" THEN QRet(qq, c.err)
            ELSE compactSwap(qq, c.s, env)
    IN  IF compactSkips(qq, force, env) THEN QRet(qq, "")
        ELSE copied(compactBolt(qq.kvStore, env.slow))

\* TryCleanOldData.  The scan of the log with a DiskQueueSnapshot is the input scan: its
\* error, or the last record position the loop has accepted (cleanEndInfo, nil if none)
TryCleanOldData(qq, retentionSize, noRealClean, maxCleanOffset0, scan, env) ==
    LET cleaned(qb, x) == [q |-> [qb EXCEPT !.backend = x.d], newStart |-> x.newStart,
                           err |-> x.err]
        compacted(c, maxCleanOffset) ==
            IF c.err # "" THEN [q |-> c.q, newStart |-> None, err |-> c.err]
            ELSE cleaned(c.q, CleanOldDataByRetention(c.q.backend, scan.cleanEndInfo,
                                                      noRealClean, maxCleanOffset))
        scanned(maxCleanOffset) ==
            IF scan.err # "" THEN [q |-> qq, newStart |-> None, err |-> scan.err]
            ELSE IF \/ scan.cleanEndInfo = None
                    \/ scan.cleanEndInfo[1].virtualEnd + retentionSize >= maxCleanOffset
            THEN [q |-> qq, newStart |-> None, err |-> ""]
            ELSE compacted(IF noRealClean THEN QRet(qq, "") ELSE compactStore(qq, FALSE, env),
                           maxCleanOffset)
    IN  IF qq.backend.diskQueueStart.virtualEnd + retentionSize
              >= qq.backend.diskReadEnd.virtualEnd
        THEN [q |-> qq, newStart |-> None, err |-> ""]
        ELSE scanned(IF \/ qq.backend.diskReadEnd.virtualEnd < maxCleanOffset0
                        \/ maxCleanOffset0 = 0
                     THEN qq.backend.diskReadEnd.virtualEnd ELSE maxCleanOffset0)

\* diskQueueWriter.exit(false), as Close calls it
writerClose(d) == sync([d EXCEPT !.exitFlag = 1])

\* DelayQueue.Close: exit(false)
Close(qq) ==
    IF qq.exitFlag = 1 THEN QRet(qq, "exiting")
    ELSE QRet([flush([qq EXCEPT !.exitFlag = 1]) EXCEPT !.backend = writerClose(@)], "")

(***************************************************************************)
(* Inputs of the calls                                                     *)
(***************************************************************************)
ChanA == <<97>>
ChanB == <<98>>
Chans == {ChanA, ChanB}

\* message bodies: one that fits the writer's size limits, one that exceeds them
Body1 == <<7>>
Body2 == <<8>>
BigBody == <<7, 7, 7, 7, 7, 7>>

\* messages handed to PutDelayMessage: valid ones (two of channel a share an original
\* id), and ones the call rejects (no channel, an id already set, a body too long)
LeaderMsgs ==
    { Message(0, ChannelDelayed, 1, 5, ChanA, Body1),
      Message(0, ChannelDelayed, 2, 5, ChanA, Body1),
      Message(0, PubDelayed, 1, 0, <<>>, Body1),
      Message(0, ChannelDelayed, 1, 5, <<>>, Body1),
      Message(9, ChannelDelayed, 1, 5, ChanA, Body1),
      Message(0, ChannelDelayed, 1, 5, ChanA, BigBody) }

\* ids assigned by the id generator of another node
ReplicaIDs == {11, 12}

\* messages handed to PutMessageOnReplica, and encoded into the raw records handed to
\* PutRawDataOnReplica
ReplicaMsgs ==
    { Message(11, ChannelDelayed, 1, 5, ChanA, Body1),
      Message(11, ChannelDelayed, 1, 6, ChanA, Body2),
      Message(12, ChannelDelayed, 2, 5, <<>>, Body1) }

\* raw records: a message as PutV2 framed it, or bytes that are no record
RawRecords ==
    {Framed(WriteDelayedTo(m)) : m \in ReplicaMsgs} \cup {<<2, 1, 2>>, <<>>}

\* which of the calls made inside a put fail
NoFailure == [write |-> FALSE, commit |-> FALSE]
WriteFails == [write |-> TRUE, commit |-> FALSE]
CommitFails == [write |-> FALSE, commit |-> TRUE]
IOs == {NoFailure, WriteFails, CommitFails}

\* values of time.Now()
Nows == {1}

\* deadlines and result buffer lengths handed to PeekRecentTimeoutWithFilter
PeekTsSet == 0..3
BufLens == {1, 2}

\* the message a channel hands to ConfirmedMessage: it has swapped the delayed id and
\* the original id
Swapped(m) == [m EXCEPT !.ID = m.DelayedOrigID, !.DelayedOrigID = m.ID]

\* the messages stored in the index
StoredMsgs(qq) == {DecodeDelayedMessage(qq.kvStore.msg[k]).m : k \in DOMAIN qq.kvStore.msg}

\* why a replica put of message m cannot succeed: "" when nothing stands in its way
replicaMsgCause(m, checkSize, io) ==
    IF ~IsValidDelayedMessage(m) THEN "invalid"
    ELSE IF checkSize > 0 /\ checkSize # EncodedLen(WriteDelayedTo(m)) + 4 THEN "size"
    ELSE IF EncodedLen(WriteDelayedTo(m)) < minMsgSize
            \/ EncodedLen(WriteDelayedTo(m)) > maxMsgSize \/ io.write THEN "write"
    ELSE IF io.commit THEN "commit"
    ELSE ""

\* why a replica put of a raw record cannot succeed
replicaRawCause(raw, checkSize, msgNum, io) ==
    IF msgNum # 1 THEN "msgNum"
    ELSE IF RawLen(raw) < 4 \/ DecodeDelayedMessage(Tail(raw)).err THEN "decode"
    ELSE IF io.write THEN "write"
    ELSE IF checkSize > 0 /\ checkSize # RawLen(raw) THEN "size"
    ELSE IF io.commit THEN "commit"
    ELSE ""

\* the bound on the calls that append
CanAppend(qq) ==
    /\ qq.backend.diskWriteEnd.virtualEnd < MaxOffset
    /\ qq.defaultIDSeq < MaxID

(***************************************************************************)
(* The state machine of one DelayQueue whose calls are made one at a time  *)
(* (the topic that owns the queue holds its lock around every call).       *)
(***************************************************************************)
IdleThreads == [t \in {1, 2} |-> [pc |-> "idle", isRaw |-> FALSE, dataLen |-> 0, off |-> 0]]

Init ==
    /\ q = NewDelayQueue(2)
    /\ r = NewDelayQueue(2)
    /\ bk = None
    /\ last = [op |-> "NewDelayQueue", err |-> ""]
    /\ th = IdleThreads
    /\ mu = None
    /\ appended = <<>>

\* PutDelayMessage of any message, with the failures of ios
PutDelayMessageCall(ios) ==
    /\ CanAppend(q)
    /\ \E m \in LeaderMsgs, io \in ios :
         LET returned(x) ==
                 /\ q' = x.q
                 /\ last' = [op |-> "PutDelayMessage", err |-> x.err,
                             m |-> [m EXCEPT !.ID = x.id], pre |-> q.kvStore]
         IN  returned(PutDelayMessage(q, m, io))
    /\ UNCHANGED <<r, bk, th, mu, appended>>

\* PutMessageOnReplica of any message at the write end plus one of offsetDiffs; the
\* size to check is not given (sizeDiff < 0) or is the record's size plus sizeDiff
PutMessageOnReplicaCall(ios, offsetDiffs, sizeDiffs) ==
    /\ CanAppend(q)
    /\ \E m \in ReplicaMsgs, io \in ios, offsetDiff \in offsetDiffs, sizeDiff \in sizeDiffs :
         LET returned(x, checkSize) ==
                 /\ q' = x.q
                 /\ last' = [op |-> "PutMessageOnReplica", err |-> x.err,
                             offsetDiff |-> offsetDiff,
                             cause |-> replicaMsgCause(m, checkSize, io)]
             call(checkSize) ==
                 returned(PutMessageOnReplica(q, m,
                              q.backend.diskWriteEnd.virtualEnd + offsetDiff, checkSize, io),
                          checkSize)
         IN  call(IF sizeDiff < 0 THEN 0 ELSE EncodedLen(WriteDelayedTo(m)) + 4 + sizeDiff)
    /\ UNCHANGED <<r, bk, th, mu, appended>>

\* PutRawDataOnReplica of any raw record
PutRawDataOnReplicaCall(ios, offsetDiffs, sizeDiffs, msgNums) ==
    /\ CanAppend(q)
    /\ \E raw \in RawRecords, io \in ios, offsetDiff \in offsetDiffs, sizeDiff \in sizeDiffs,
          msgNum \in msgNums :
         LET returned(x, checkSize) ==
                 /\ q' = x.q
                 /\ last' = [op |-> "PutRawDataOnReplica", err |-> x.err,
                             offsetDiff |-> offsetDiff,
                             cause |-> replicaRawCause(raw, checkSize, msgNum, io)]
             call(checkSize) ==
                 returned(PutRawDataOnReplica(q, raw,
                              q.backend.diskWriteEnd.virtualEnd + offsetDiff, checkSize,
                              msgNum, io),
                          checkSize)
         IN  call(IF sizeDiff < 0 THEN 0 ELSE RawLen(raw) + sizeDiff)
    /\ UNCHANGED <<r, bk, th, mu, appended>>

DoPutDelayMessage == PutDelayMessageCall({NoFailure, CommitFails})

DoPutMessageOnReplica == PutMessageOnReplicaCall({NoFailure}, {0}, {-1})

DoPutRawDataOnReplica == PutRawDataOnReplicaCall({NoFailure}, {0}, {-1}, {1})

DoConfirmedMessage ==
    /\ \E m \in StoredMsgs(q) \cup {Swapped(x) : x \in StoredMsgs(q)}
                \cup {Message(5, ChannelDelayed, 3, 2, ChanA, Body1)} :
         LET returned(x) ==
                 /\ q' = x.q
                 /\ last' = [op |-> "ConfirmedMessage", err |-> x.err, m |-> m,
                             undoesPut |-> /\ last.op = "PutDelayMessage"
                                           /\ last.err = ""
                                           /\ m = Swapped(last.m)]
         IN  returned(ConfirmedMessage(q, m))
    /\ UNCHANGED <<r, bk, th, mu, appended>>

DoEmptyDelayedType ==
    /\ \E dt \in {ChannelDelayed, PubDelayed}, now \in Nows :
         LET returned(x) ==
                 /\ q' = x.q
                 /\ last' = [op |-> "EmptyDelayedType", err |-> x.err]
         IN  returned(EmptyDelayedType(q, dt, now))
    /\ UNCHANGED <<r, bk, th, mu, appended>>

DoEmptyDelayedChannel ==
    /\ \E ch \in Chans \cup {<<>>}, now \in Nows :
         LET returned(x) ==
                 /\ q' = x.q
                 /\ last' = [op |-> "EmptyDelayedChannel", err |-> x.err]
         IN  returned(EmptyDelayedChannel(q, ch, now))
    /\ UNCHANGED <<r, bk, th, mu, appended>>

\* the oldest keys, the type counts and the channel counts a leader reports
ConsumedKeyLists ==
    {<<>>} \cup {<<getDelayedMsgDBKey(ChannelDelayed, ChanA, ts, id)>> :
                    ts \in {1, 2}, id \in {2}}
ConsumedCntLists == {EmptyMap, MapPut(EmptyMap, PubDelayed, 0)}
ConsumedChannelCntLists == {EmptyMap, MapPut(EmptyMap, ChanA, 0)}

DoUpdateConsumedState ==
    /\ \E keyList \in ConsumedKeyLists, cntList \in ConsumedCntLists,
          channelCntList \in ConsumedChannelCntLists, now \in Nows :
         LET returned(x) ==
                 /\ q' = x.q
                 /\ last' = [op |-> "UpdateConsumedState", err |-> x.err]
         IN  returned(UpdateConsumedState(q, keyList, cntList, channelCntList, now))
    /\ UNCHANGED <<r, bk, th, mu, appended>>

\* the filters of PeekAll, PeekRecentChannelTimeout and PeekRecentDelayedPub
PeekFilters == {<<-1, <<>> >>, <<ChannelDelayed, ChanA>>, <<PubDelayed, <<>> >>}

DoPeek ==
    /\ \E n \in BufLens, peekTs \in {1, 2}, f \in PeekFilters :
         LET returned(x) ==
                 /\ q' = x.q
                 /\ last' = [op |-> "PeekRecentTimeoutWithFilter", err |-> x.err,
                             results |-> x.results]
         IN  returned(PeekRecentTimeoutWithFilter(q, n, peekTs, f[1], f[2]))
    /\ UNCHANGED <<r, bk, th, mu, appended>>

DoForceFlush ==
    /\ q' = ForceFlush(q)
    /\ last' = [op |-> "ForceFlush", err |-> ""]
    /\ UNCHANGED <<r, bk, th, mu, appended>>

Next ==
    \/ DoPutDelayMessage
    \/ DoPutMessageOnReplica
    \/ DoPutRawDataOnReplica
    \/ DoConfirmedMessage
    \/ DoEmptyDelayedType
    \/ DoEmptyDelayedChannel
    \/ DoUpdateConsumedState
    \/ DoPeek
    \/ DoForceFlush

Spec == Init /\ [][Next]_vars

(***************************************************************************)
(* Properties of the index                                                 *)
(***************************************************************************)
\* the row key of a stored message
RowKey(m) == getDelayedMsgDBKey(m.DelayedType, m.DelayedChannel, m.DelayedTs, m.ID)

\* the calls that delete rows
Removers == {"ConfirmedMessage", "EmptyDelayedType", "EmptyDelayedChannel", "UpdateConsumedState"}

\* every row of the queue comes back from every peek whose deadline has reached it and
\* whose filter is the row's type and channel, unless the result buffer was filled
PeekReturnsRows(qq) ==
    \A k \in DOMAIN qq.kvStore.msg :
      LET dk == decodeDelayedMsgDBKey(k)
          stored == DecodeDelayedMessage(qq.kvStore.msg[k]).m
      IN  \A peekTs \in PeekTsSet, n \in BufLens :
            peekTs >= dk.ts =>
              LET res == PeekRecentTimeoutWithFilter(qq, n, peekTs, dk.dt, dk.ch).results
              IN  Len(res) = n \/ \E i \in 1..Len(res) : res[i] = stored

\* C1: a successful PutDelayMessage(m) stores the encoded m at m's key; a row leaves
\* the store only in ConfirmedMessage, emptyDelayedUntil or emptyAllDelayedType, and a
\* row under a locally assigned id is never rewritten; and while a row is there, every
\* PeekRecentTimeoutWithFilter whose peekTs has reached the row's timestamp and whose
\* filter is the row's type and channel returns the stored message or fills its buffer.
C1_PutVisibleUntilRemoved ==
    [][ /\ (last'.op = "PutDelayMessage" /\ last'.err = "") =>
              /\ RowKey(last'.m) \in DOMAIN q'.kvStore.msg
              /\ q'.kvStore.msg[RowKey(last'.m)] = WriteDelayedTo(last'.m)
        /\ \A k \in DOMAIN q.kvStore.msg :
              /\ k \notin DOMAIN q'.kvStore.msg => last'.op \in Removers
              /\ decodeDelayedMsgDBKey(k).id \notin ReplicaIDs =>
                    (k \in DOMAIN q'.kvStore.msg => q'.kvStore.msg[k] = q.kvStore.msg[k])
        /\ PeekReturnsRows(q')
      ]_vars

\* a peek on channel a, after the hint of channel a was set, returned a message that
\* PutDelayMessage stored
C1_Witness ==
    /\ last.op = "PeekRecentTimeoutWithFilter"
    /\ ChanA \in DOMAIN q.oldestChannelDelayedTs
    /\ \E i \in 1..Len(last.results) :
         /\ last.results[i].ID \notin ReplicaIDs
         /\ last.results[i].DelayedChannel = ChanA
         /\ last.results[i].DelayedTs = 2

\* the (type, channel) pairs that have a counter
CounterPairs == {<<dt, ch>> : dt \in MinDelayedType..(MaxDelayedType - 1), ch \in Chans \cup {<<>>}}

\* the rows of delayed_message under the prefix of (dt, ch)
RowsOf(qq, dt, ch) ==
    {k \in DOMAIN qq.kvStore.msg : HasPrefix(k, getDelayedMsgDBPrefixKey(dt, ch))}

\* C2: for every (type, channel), the counter GetCurrentDelayedCnt returns is the number
\* of rows of delayed_message under that (type, channel) prefix, and there is no
\* counter cell for any other prefix.
C2_CounterIsRowCount ==
    /\ \A p \in CounterPairs :
         GetCurrentDelayedCnt(q, p[1], p[2]) = Cardinality(RowsOf(q, p[1], p[2]))
    /\ \A k \in DOMAIN q.kvStore.meta :
         k = syncedOffsetKey \/ \E p \in CounterPairs : k = counterKey(p[1], p[2])

\* a delete has brought the counter of channel a from 2 down to 1
C2_Witness ==
    /\ last.op \in Removers
    /\ last.err = ""
    /\ GetCurrentDelayedCnt(q, ChannelDelayed, ChanA) = 1
    /\ Cardinality(RowsOf(q, ChannelDelayed, ChanA)) = 1
    /\ GetCurrentDelayedCnt(q, PubDelayed, <<>>) = 0
    /\ counterKey(PubDelayed, <<>>) \in DOMAIN q.kvStore.meta

\* the key of delayed_message_index a stored message is indexed under
IndexKeyOf(v) ==
    LET m == DecodeDelayedMessage(v).m
    IN  getDelayedMsgDBIndexKey(m.DelayedType, m.DelayedChannel, m.DelayedOrigID)

\* C3: every row of delayed_message has its row in delayed_message_index, keyed by the
\* type, channel and original id of the stored message, and every row of
\* delayed_message_index has a row of delayed_message that it indexes.
C3_PrimaryHasSecondary ==
    /\ \A k \in DOMAIN q.kvStore.msg : IndexKeyOf(q.kvStore.msg[k]) \in DOMAIN q.kvStore.idx
    /\ \A i \in DOMAIN q.kvStore.idx :
         \E k \in DOMAIN q.kvStore.msg : IndexKeyOf(q.kvStore.msg[k]) = i

\* the original statement of C7: after a successful PutDelayMessage(m), ConfirmedMessage
\* of m (as put, or with its two ids swapped as a channel hands it over) leaves the
\* three keyspaces as they were before the put.
C7_PutConfirmRestoresAll ==
    [][ ( /\ last.op = "PutDelayMessage"
          /\ last.err = ""
          /\ last'.op = "ConfirmedMessage"
          /\ last'.m \in {last.m, Swapped(last.m)} )
        => q'.kvStore = last.pre
      ]_vars

\* C7: after a successful PutDelayMessage(m), ConfirmedMessage of m with its delayed id
\* and original id swapped succeeds and leaves delayed_message and the value of every
\* counter as they were before the put; delayed_message_index is what it was before the
\* put less the row of m's (type, channel, original id); synced_offset is the write end
\* the put reached, and the counter cell of m's (type, channel) exists.
C7_PutConfirmRestoresRows ==
    [][ ( /\ last.op = "PutDelayMessage"
          /\ last.err = ""
          /\ last'.op = "ConfirmedMessage"
          /\ last'.m = Swapped(last.m) )
        => /\ last'.err = ""
           /\ q'.kvStore.msg = last.pre.msg
           /\ \A p \in CounterPairs :
                readCounter(q'.kvStore, counterKey(p[1], p[2]))
                    = readCounter(last.pre, counterKey(p[1], p[2]))
           /\ q'.kvStore.idx = MapDel(last.pre.idx, IndexKeyOf(WriteDelayedTo(last.m)))
           /\ q'.kvStore.meta[syncedOffsetKey] = Itoa(q.backend.diskWriteEnd.virtualEnd)
           /\ counterKey(last.m.DelayedType, last.m.DelayedChannel) \in DOMAIN q'.kvStore.meta
      ]_vars

\* a put into a store that held a row has just been confirmed
C7_Witness ==
    /\ last.op = "ConfirmedMessage"
    /\ last.undoesPut
    /\ last.err = ""
    /\ DOMAIN q.kvStore.msg # {}

(***************************************************************************)
(* The state machine of a DelayQueue on a follower: replica puts whose     *)
(* arguments and whose writes may be wrong.                                *)
(***************************************************************************)
ReplicaPutMessage == PutMessageOnReplicaCall(IOs, {0, 1}, {-1, 0, 1})

ReplicaPutRawData == PutRawDataOnReplicaCall(IOs, {0, 1}, {-1, 0, 1}, {1, 2})

NextReplica ==
    \/ ReplicaPutMessage
    \/ ReplicaPutRawData
    \/ DoForceFlush

SpecReplica == Init /\ [][NextReplica]_vars

ReplicaPuts == {"PutMessageOnReplica", "PutRawDataOnReplica"}

\* C5: a replica put at an offset that is not the write end's virtual offset returns the
\* write-offset-mismatch error and changes nothing of the queue: not the write end, not
\* synced_offset, not a row of any keyspace.
C5_OffsetMismatchRejected ==
    [][ (last'.op \in ReplicaPuts /\ last'.offsetDiff # 0)
        => /\ last'.err = "write offset mismatch"
           /\ q'.backend.diskWriteEnd = q.backend.diskWriteEnd
           /\ q'.kvStore = q.kvStore
           /\ q' = q
      ]_vars

\* a raw put was rejected for its offset on a queue that holds a record and a row
C5_Witness ==
    /\ last.op = "PutRawDataOnReplica"
    /\ last.err = "write offset mismatch"
    /\ last.offsetDiff = 1
    /\ q.backend.diskWriteEnd.virtualEnd > 0
    /\ DOMAIN q.kvStore.msg # {}

\* the failures of a replica put that the offset check does not see
FailureCauses == {"decode", "size", "write", "commit"}

\* C6: a replica put at the right offset that a decode error, the size check, a failed
\* log write or a failed index commit stands in the way of returns an error, and the
\* write end's virtual offset and message count are what they were before the call.
C6_FailedReplicaPutRestoresEnd ==
    [][ (last'.op \in ReplicaPuts /\ last'.offsetDiff = 0 /\ last'.cause \in FailureCauses)
        => /\ last'.err # ""
           /\ q'.backend.diskWriteEnd.virtualEnd = q.backend.diskWriteEnd.virtualEnd
           /\ q'.backend.diskWriteEnd.totalMsgCnt = q.backend.diskWriteEnd.totalMsgCnt
      ]_vars

(***************************************************************************)
(* The state machine of the bare diskQueueWriter (q.backend): appends,     *)
(* flushes, rollbacks, resets and retention cleaning.                      *)
(***************************************************************************)
\* a call of the writer has returned: d is the writer after it
Returned(op, d, err, offset, cnt) ==
    /\ q' = [q EXCEPT !.backend = d]
    /\ last' = [op |-> op, err |-> err, offset |-> offset, cnt |-> cnt]
    /\ UNCHANGED <<r, bk, th, mu, appended>>

LogPutV2 ==
    /\ q.backend.diskWriteEnd.virtualEnd < MaxLogOffset
    /\ \E dataLen \in {5, 8}, ioErr \in BOOLEAN :
         LET returned(x) == Returned("PutV2", x.d, x.err, x.offset, 1)
         IN  returned(PutV2(q.backend, dataLen, ioErr))

LogPutRawV2 ==
    /\ q.backend.diskWriteEnd.virtualEnd < MaxLogOffset
    /\ \E dataLen \in {12}, msgCnt \in {1}, ioErr \in {FALSE} :
         LET returned(x) == Returned("PutRawV2", x.d, x.err, x.offset, msgCnt)
         IN  returned(PutRawV2(q.backend, dataLen, msgCnt, ioErr))

LogFlush ==
    /\ q.backend.exitFlag = 0
    /\ LET returned(x) == Returned("Flush", x.d, x.err, 0, 0)
       IN  returned(Flush(q.backend))

LogRollbackWriteV2 ==
    /\ q.backend.exitFlag = 0
    /\ \E back \in {-1, 12}, diffCnt \in {1} :
         LET returned(x, offset) ==
                 Returned("RollbackWriteV2", x.d, x.err, offset, diffCnt)
             call(offset) == returned(RollbackWriteV2(q.backend, offset, diffCnt), offset)
         IN  /\ q.backend.diskWriteEnd.virtualEnd >= back
             /\ call(q.backend.diskWriteEnd.virtualEnd - back)

LogResetWriteEndV2 ==
    /\ q.backend.exitFlag = 0
    /\ \E offset \in {0, 24} : \E totalCnt \in {offset \div 12} :
         LET returned(x) == Returned("ResetWriteEndV2", x.d, x.err, offset, totalCnt)
         IN  returned(ResetWriteEndV2(q.backend, offset, totalCnt))

LogResetWriteWithQueueStart ==
    /\ q.backend.diskWriteEnd.FileNum < MaxFileNum
    /\ \E queueStartOffset \in {12, 36} : \E queueStartCnt \in {queueStartOffset \div 12} :
         LET returned(x) ==
                 Returned("ResetWriteWithQueueStart", x.d, x.err,
                          queueStartOffset, queueStartCnt)
         IN  returned(ResetWriteWithQueueStart(q.backend, queueStartOffset, queueStartCnt))

\* the clean ends handed to CleanOldDataByRetention
CleanEnds ==
    {None}
      \cup {Some([hasFile |-> TRUE, FileNum |-> n, virtualEnd |-> 24 * n]) : n \in {1, 9}}
      \cup {Some([hasFile |-> FALSE, FileNum |-> 0, virtualEnd |-> o]) : o \in {25, 100}}

LogCleanOldDataByRetention ==
    /\ q.backend.exitFlag = 0
    /\ \E cleanEndInfo \in CleanEnds, noRealClean \in BOOLEAN, maxCleanOffset \in {0, 24} :
         LET returned(x) == Returned("CleanOldDataByRetention", x.d, x.err, 0, 0)
         IN  returned(CleanOldDataByRetention(q.backend, cleanEndInfo, noRealClean,
                                              maxCleanOffset))

NextLog ==
    \/ LogPutV2
    \/ LogPutRawV2
    \/ LogFlush
    \/ LogRollbackWriteV2
    \/ LogResetWriteEndV2
    \/ LogResetWriteWithQueueStart
    \/ LogCleanOldDataByRetention

SpecLog == Init /\ [][NextLog]_vars

\* the calls of the writer C9 says never lower the write end
NonDecreasing == {"PutV2", "PutRawV2", "Flush", "CleanOldDataByRetention"}

\* a successful RollbackWriteV2(target, diffCnt) moves the write end to exactly target
\* and lowers the message count by exactly diffCnt
RollbackIsExact ==
    (last'.op = "RollbackWriteV2" /\ last'.err = "")
        => /\ q'.backend.diskWriteEnd.virtualEnd = last'.offset
           /\ q'.backend.diskWriteEnd.totalMsgCnt
                  = q.backend.diskWriteEnd.totalMsgCnt - last'.cnt

\* the original statement of C9: the virtual offset of the write end never decreases
\* across a successful PutV2, PutRawV2, Flush, CleanOldDataByRetention or
\* ResetWriteWithQueueStart, and a successful rollback is exact.
C9_WriteEndNeverDecreases ==
    [][ /\ (last'.op \in NonDecreasing \cup {"ResetWriteWithQueueStart"} /\ last'.err = "")
             => q'.backend.diskWriteEnd.virtualEnd >= q.backend.diskWriteEnd.virtualEnd
        /\ RollbackIsExact
      ]_vars

\* C9: the virtual offset of the write end never decreases across a successful PutV2,
\* PutRawV2, Flush or CleanOldDataByRetention; ResetWriteWithQueueStart sets the virtual
\* offset and the message count of the write end to those of the queue start it is
\* given, lower or not; a successful RollbackWriteV2(target, diffCnt) moves the virtual
\* offset to exactly target and lowers the message count by exactly diffCnt.
C9_WriteEndDecreasesOnlyOnResets ==
    [][ /\ (last'.op \in NonDecreasing /\ last'.err = "")
             => q'.backend.diskWriteEnd.virtualEnd >= q.backend.diskWriteEnd.virtualEnd
        /\ (last'.op = "ResetWriteWithQueueStart")
             => /\ last'.err = ""
                /\ q'.backend.diskWriteEnd.virtualEnd = last'.offset
                /\ q'.backend.diskWriteEnd.totalMsgCnt = last'.cnt
        /\ RollbackIsExact
      ]_vars

\* a rollback has taken one message off a log that keeps at least one, and whose
\* queue start retention cleaning or a reset has moved to a later file
C9_Witness ==
    /\ last.op = "RollbackWriteV2"
    /\ last.err = ""
    /\ last.cnt = 1
    /\ q.backend.diskWriteEnd.virtualEnd = last.offset
    /\ q.backend.diskWriteEnd.totalMsgCnt >= 1
    /\ q.backend.diskQueueStart.FileNum > 0

(***************************************************************************)
(* The state machine of a replication pair: the leader q takes puts, the   *)
(* follower r replays the records the leader appended, in offset order.    *)
(***************************************************************************)
\* messages put on the leader of the pair
PairMsgs == LeaderMsgs \cup {Message(0, ChannelDelayed, 2, 6, ChanB, Body2)}

\* the record a leader put has appended: its bytes as PutV2 framed them, what the put
\* returned, and the leader's write end and store after it
Appended(m, x) ==
    [raw |-> Framed(WriteDelayedTo(m)), offset |-> x.offset, writeBytes |-> x.writeBytes,
     dend |-> x.q.backend.diskWriteEnd, kvStore |-> x.q.kvStore]

LeaderPut ==
    /\ CanAppend(q)
    /\ \E m \in PairMsgs :
         LET returned(x) ==
                 /\ q' = x.q
                 /\ appended' = IF x.err = ""
                                THEN Append(appended, Appended([m EXCEPT !.ID = x.id], x))
                                ELSE appended
                 /\ last' = [op |-> "PutDelayMessage", err |-> x.err]
         IN  returned(PutDelayMessage(q, m, NoFailure))
    /\ UNCHANGED <<r, bk, th, mu>>

\* the follower replays the record that starts at its write end
FollowerReplay ==
    /\ \E i \in DOMAIN appended, sized \in BOOLEAN :
         LET returned(x) ==
                 /\ r' = x.q
                 /\ last' = [op |-> "PutRawDataOnReplica", err |-> x.err, rec |-> i]
             replay(rec) ==
                 returned(PutRawDataOnReplica(r, rec.raw, rec.offset,
                                              IF sized THEN rec.writeBytes ELSE 0,
                                              1, NoFailure))
         IN  /\ appended[i].offset = r.backend.diskWriteEnd.virtualEnd
             /\ replay(appended[i])
    /\ UNCHANGED <<q, bk, th, mu, appended>>

FollowerForceFlush ==
    /\ r' = ForceFlush(r)
    /\ last' = [op |-> "ForceFlush", err |-> ""]
    /\ UNCHANGED <<q, bk, th, mu, appended>>

NextRepl ==
    \/ LeaderPut
    \/ FollowerReplay
    \/ FollowerForceFlush

SpecRepl == Init /\ [][NextRepl]_vars

\* C4: PutRawDataOnReplica of the bytes a leader PutDelayMessage appended, made at the
\* offset the leader returned on a follower that has replayed every earlier record,
\* succeeds and leaves the follower with the write end (file number, position, virtual
\* offset, message count), the synced_offset and the three keyspaces the leader had
\* right after that put.
C4_FollowerMatchesLeader ==
    [][ last'.op = "PutRawDataOnReplica"
        => /\ last'.err = ""
           /\ r'.backend.diskWriteEnd = appended[last'.rec].dend
           /\ GetSyncedOffset(r') = [synced |-> appended[last'.rec].dend.virtualEnd,
                                     err |-> ""]
           /\ r'.kvStore = appended[last'.rec].kvStore
      ]_vars

\* the follower has replayed the second record of a leader that holds two rows and
\* whose second put filled the first data file, and is level with the leader
C4_Witness ==
    /\ last.op = "PutRawDataOnReplica"
    /\ last.err = ""
    /\ last.rec = 2
    /\ Len(appended) = 2
    /\ Cardinality(DOMAIN q.kvStore.msg) = 2
    /\ q.backend.diskWriteEnd.FileNum = 1
    /\ r.backend.diskWriteEnd = q.backend.diskWriteEnd
    /\ r.kvStore = q.kvStore

(***************************************************************************)
(* The state machine of a backup: the store of the engine q is streamed    *)
(* out by BackupKVStoreTo and read by RestoreKVStoreFrom into the engine   *)
(* r, which has had calls of its own before.                               *)
(***************************************************************************)
SourcePut == PutDelayMessageCall({NoFailure})

\* messages put on the engine that is restored later
TargetMsgs ==
    { Message(11, ChannelDelayed, 1, 5, ChanA, Body1),
      Message(12, PubDelayed, 2, 0, <<>>, Body2) }

TargetPut ==
    /\ CanAppend(r)
    /\ \E m \in TargetMsgs :
         LET returned(x) ==
                 /\ r' = x.q
                 /\ last' = [op |-> "PutMessageOnReplica", err |-> x.err]
         IN  returned(PutMessageOnReplica(r, m, r.backend.diskWriteEnd.virtualEnd, 0,
                                          NoFailure))
    /\ UNCHANGED <<q, bk, th, mu, appended>>

TargetEmptyDelayedChannel ==
    /\ \E ch \in {ChanA}, now \in Nows :
         LET returned(x) ==
                 /\ r' = x.q
                 /\ last' = [op |-> "EmptyDelayedChannel", err |-> x.err]
         IN  returned(EmptyDelayedChannel(r, ch, now))
    /\ UNCHANGED <<q, bk, th, mu, appended>>

\* BackupKVStoreTo on q: bk holds the stream, and the engine as it was at that time
DoBackupKVStoreTo ==
    /\ bk' = Some([stream |-> BackupKVStoreTo(q), source |-> q])
    /\ last' = [op |-> "BackupKVStoreTo", err |-> ""]
    /\ UNCHANGED <<q, r, th, mu, appended>>

\* RestoreKVStoreFrom on r, of the stream or of a stream cut short
DoRestoreKVStoreFrom ==
    /\ bk # None
    /\ \E len \in 0..Len(bk[1].stream) :
         LET returned(x) ==
                 /\ r' = x.q
                 /\ last' = [op |-> "RestoreKVStoreFrom", err |-> x.err,
                             pre |-> r, whole |-> len = Len(bk[1].stream)]
         IN  returned(RestoreKVStoreFrom(r, SubSeq(bk[1].stream, 1, len)))
    /\ UNCHANGED <<q, bk, th, mu, appended>>

NextBackup ==
    \/ SourcePut
    \/ DoEmptyDelayedChannel
    \/ TargetPut
    \/ TargetEmptyDelayedChannel
    \/ DoBackupKVStoreTo
    \/ DoRestoreKVStoreFrom

SpecBackup == Init /\ [][NextBackup]_vars

\* the queries of C8
PeekQueries == {<<n, peekTs, f>> : n \in BufLens, peekTs \in PeekTsSet, f \in PeekFilters}

\* what a Peek returns: the records and the error
PeekAnswer(qq, qu) ==
    LET answered(x) == <<x.results, x.err>>
    IN  answered(PeekRecentTimeoutWithFilter(qq, qu[1], qu[2], qu[3][1], qu[3][2]))

\* two engines answer every Peek, GetCurrentDelayedCnt and GetSyncedOffset alike
SameAnswers(a, b) ==
    /\ \A qu \in PeekQueries : PeekAnswer(a, qu) = PeekAnswer(b, qu)
    /\ \A p \in CounterPairs :
         GetCurrentDelayedCnt(a, p[1], p[2]) = GetCurrentDelayedCnt(b, p[1], p[2])
    /\ GetSyncedOffset(a) = GetSyncedOffset(b)

\* C8: RestoreKVStoreFrom of the whole stream that BackupKVStoreTo wrote succeeds, and
\* then every Peek, GetCurrentDelayedCnt and GetSyncedOffset on the restored engine
\* returns what it returned on the source engine at the time of the backup, whatever
\* rows and hints the restored engine held before.
C8_RestoredAnswersAsSource ==
    [][ (last'.op = "RestoreKVStoreFrom" /\ last'.whole)
        => /\ last'.err = ""
           /\ SameAnswers(r', bk[1].source)
      ]_vars

\* a restore has replaced a store that answered differently, in an engine whose hint
\* for channel a was beyond the row of channel a that the backup holds
C8_Witness ==
    /\ last.op = "RestoreKVStoreFrom"
    /\ last.err = ""
    /\ ~SameAnswers(last.pre, bk[1].source)
    /\ ChanA \in DOMAIN last.pre.oldestChannelDelayedTs
    /\ \E k \in DOMAIN r.kvStore.msg :
         /\ HasPrefix(k, getDelayedMsgDBPrefixKey(ChannelDelayed, ChanA))
         /\ decodeDelayedMsgDBKey(k).ts < last.pre.oldestChannelDelayedTs[ChanA]
    /\ DOMAIN last.pre.kvStore.msg # {}

(***************************************************************************)
(* The state machine of concurrent callers of PutV2 and PutRawV2 on the    *)
(* writer q.backend.  A call takes four steps: d.Lock(), the read of the   *)
(* write offset in writeOne, the rest of writeOne together with the tail   *)
(* of the call, and d.Unlock().                                            *)
(***************************************************************************)
Threads == DOMAIN IdleThreads

\* d.Lock(), for a call of PutV2 (a payload of dataLen bytes) or of PutRawV2
ThreadLock(t) ==
    /\ th[t].pc = "idle"
    /\ q.backend.diskWriteEnd.virtualEnd < MaxOffset
    /\ lockFree(mu)
    /\ \E isRaw \in BOOLEAN, dataLen \in {5, 6, 8} :
         th' = [th EXCEPT ![t] = [pc |-> "locked", isRaw |-> isRaw,
                                  dataLen |-> dataLen, off |-> 0]]
    /\ mu' = Some(t)
    /\ last' = [op |-> "Lock", err |-> ""]
    /\ UNCHANGED <<q, r, bk, appended>>

\* writeOne: writeOffset := d.diskWriteEnd.Offset()
ThreadReadOffset(t) ==
    /\ th[t].pc = "locked"
    /\ th' = [th EXCEPT ![t].pc = "read", ![t].off = q.backend.diskWriteEnd.virtualEnd]
    /\ last' = [op |-> "writeOne", err |-> ""]
    /\ UNCHANGED <<q, r, bk, mu, appended>>

\* the rest of writeOne and the tail of the call: the write end advances, the call
\* returns the offset it has read
ThreadAdvance(t) ==
    /\ th[t].pc = "read"
    /\ LET returned(x) ==
               /\ q' = [q EXCEPT !.backend = x.d]
               /\ appended' =
                      IF x.err # "" THEN appended
                      ELSE Append(appended,
                                  [offset |-> th[t].off, writeBytes |-> x.writeBytes,
                                   isRaw |-> th[t].isRaw, dataLen |-> th[t].dataLen,
                                   before |-> q.backend.diskWriteEnd.virtualEnd,
                                   after |-> x.d.diskWriteEnd.virtualEnd])
               /\ last' = [op |-> IF th[t].isRaw THEN "PutRawV2" ELSE "PutV2", err |-> x.err]
       IN  returned(IF th[t].isRaw THEN PutRawV2(q.backend, th[t].dataLen, 1, FALSE)
                    ELSE PutV2(q.backend, th[t].dataLen, FALSE))
    /\ th' = [th EXCEPT ![t].pc = "written"]
    /\ UNCHANGED <<r, bk, mu>>

\* d.Unlock()
ThreadUnlock(t) ==
    /\ th[t].pc = "written"
    /\ th' = [th EXCEPT ![t] = IdleThreads[t]]
    /\ mu' = None
    /\ last' = [op |-> "Unlock", err |-> ""]
    /\ UNCHANGED <<q, r, bk, appended>>

NextConc ==
    \/ \E t \in Threads : ThreadLock(t)
    \/ \E t \in Threads : ThreadReadOffset(t)
    \/ \E t \in Threads : ThreadAdvance(t)
    \/ \E t \in Threads : ThreadUnlock(t)

SpecConc == Init /\ [][NextConc]_vars

\* C10: every successful append of concurrent PutV2 / PutRawV2 callers returns as its
\* offset the virtual offset the write end had right before it, advances the write end
\* by exactly the writeBytes it returns (the payload plus 4 for PutV2, the payload for
\* PutRawV2), and starts where the append before it ended.
C10_AppendsAreContiguous ==
    \A i \in DOMAIN appended :
        /\ appended[i].offset = appended[i].before
        /\ appended[i].after = appended[i].before + appended[i].writeBytes
        /\ appended[i].writeBytes
               = appended[i].dataLen + (IF appended[i].isRaw THEN 0 ELSE 4)
        /\ i > 1 => appended[i].offset
                        = appended[i - 1].offset + appended[i - 1].writeBytes
        /\ i = 1 => appended[i].offset = 0

\* a PutV2 and a PutRawV2 have both appended, and a caller waits for the mutex that
\* the other holds
C10_Witness ==
    /\ Len(appended) >= 2
    /\ \E i, j \in DOMAIN appended : appended[i].isRaw /\ ~appended[j].isRaw
    /\ mu # None
    /\ \E t \in Threads : th[t].pc = "idle"

(***************************************************************************)
(* The state machine of concurrent callers of PutDelayMessage on q.  put   *)
(* holds no lock from its log append to its store transaction: a call is   *)
(* the encoding into q.putBuffer, the append (under the writer's lock),    *)
(* the store transaction (under compactMutex) and the rest (the hint under *)
(* oldestMutex, the flush).                                                *)
(***************************************************************************)
\* the messages the concurrent callers put
PutterMsgs ==
    { Message(0, ChannelDelayed, 1, 5, ChanA, Body1),
      Message(0, ChannelDelayed, 2, 6, ChanB, Body2),
      Message(0, PubDelayed, 1, 0, <<>>, Body1) }

\* PutDelayMessage up to the encoding: the checks, nextMsgID, and
\* writeDelayedMessageToBackendWithCheck up to the call of PutV2
PutterEncode(t) ==
    /\ th[t].pc = "idle"
    /\ CanAppend(q)
    /\ q.exitFlag = 0
    /\ \E m \in PutterMsgs :
         /\ IsValidDelayedMessage(m)
         /\ th' = [th EXCEPT ![t] = [pc |-> "encoded",
                                     m |-> [m EXCEPT !.ID = q.defaultIDSeq + 1],
                                     offset |-> 0, writeBytes |-> 0, dend |-> ZeroEnd]]
         /\ q' = [q EXCEPT !.defaultIDSeq = @ + 1,
                           !.putBuffer = WriteDelayedTo([m EXCEPT !.ID = q.defaultIDSeq + 1])]
    /\ last' = [op |-> "encode", err |-> "", t |-> t]
    /\ UNCHANGED <<r, bk, mu, appended>>

\* bq.PutV2(buf.Bytes()) and atomic.StoreInt32(&q.needFlush, 1)
PutterAppend(t) ==
    /\ th[t].pc = "encoded"
    /\ LET written(w) ==
               /\ q' = [q EXCEPT !.backend = w.d, !.needFlush = 1]
               /\ th' = [th EXCEPT ![t] = IF w.err # "" THEN IdleThreads[t]
                                          ELSE [@ EXCEPT !.pc = "appended",
                                                         !.offset = w.offset,
                                                         !.writeBytes = w.writeBytes,
                                                         !.dend = w.dend]]
               /\ last' = [op |-> "append", err |-> w.err, t |-> t]
       IN  written(PutV2(q.backend, EncodedLen(q.putBuffer), FALSE))
    /\ UNCHANGED <<r, bk, mu, appended>>

\* compactMutex.Lock(), the store transaction, compactMutex.Unlock()
PutterCommit(t) ==
    /\ th[t].pc = "appended"
    /\ LET committed(x) ==
               /\ q' = [q EXCEPT !.kvStore = x.s]
               /\ th' = [th EXCEPT ![t] = IF x.err # "" THEN IdleThreads[t]
                                          ELSE [@ EXCEPT !.pc = "committed"]]
               /\ last' = [op |-> "commit", err |-> x.err, t |-> t]
       IN  committed(putTx(q.kvStore, th[t].m, q.putBuffer, th[t].dend))
    /\ UNCHANGED <<r, bk, mu, appended>>

\* the rest of put: the oldest-delivery hint, the flush, the return
PutterReturn(t) ==
    /\ th[t].pc = "committed"
    /\ LET hinted(q1) ==
               q' = IF \/ q1.SyncEvery = 1
                       \/ th[t].dend.totalMsgCnt - q1.lastSyncCnt >= q1.SyncEvery
                    THEN flush(q1) ELSE q1
       IN  hinted([q EXCEPT !.oldestChannelDelayedTs = updateOldest(@, th[t].m)])
    /\ th' = [th EXCEPT ![t] = IdleThreads[t]]
    /\ last' = [op |-> "PutDelayMessage", err |-> "", t |-> t]
    /\ UNCHANGED <<r, bk, mu, appended>>

NextPuts ==
    \/ \E t \in Threads : PutterEncode(t)
    \/ \E t \in Threads : PutterAppend(t)
    \/ \E t \in Threads : PutterCommit(t)
    \/ \E t \in Threads : PutterReturn(t)

SpecPuts == Init /\ [][NextPuts]_vars

\* synced_offset as GetSyncedOffset reads it
SyncedOf(qq) == GetSyncedOffset(qq).synced

\* C11: concurrent PutDelayMessage calls commit their store transactions in the order
\* of their log appends (no call commits while another holds an appended record of a
\* lower offset), synced_offset never moves backwards, and once every call has returned
\* synced_offset is the virtual offset of the write end.
C11_CommitsFollowAppends ==
    [][ /\ \A t \in Threads :
             (th[t].pc = "appended" /\ th'[t].pc = "committed")
                 => \A u \in Threads \ {t} :
                        th[u].pc = "appended" => th[u].offset > th[t].offset
        /\ SyncedOf(q') >= SyncedOf(q)
        /\ (\A t \in Threads : th'[t].pc = "idle")
               => SyncedOf(q') = q'.backend.diskWriteEnd.virtualEnd
      ]_vars

(***************************************************************************)
(* The state machine of one DelayQueue with its maintenance calls: the     *)
(* puts, confirms, empties, compactStore and TryCleanOldData, one at a time.*)
(***************************************************************************)
\* what compactStore finds: the size of the store file, a copy slower than
\* maxCompactTime, a rename that fails
CompactEnvs ==
    { [fileSize |-> 0, slow |-> FALSE, rename |-> FALSE],
      [fileSize |-> CompactThreshold, slow |-> FALSE, rename |-> FALSE],
      [fileSize |-> CompactThreshold, slow |-> TRUE, rename |-> FALSE],
      [fileSize |-> CompactThreshold, slow |-> FALSE, rename |-> TRUE] }

\* what the scan of TryCleanOldData ends with: a read error, no record accepted, or the
\* position of a record between the queue start and the read end
ScanEnds(qq) ==
    { [err |-> "read", cleanEndInfo |-> None], [err |-> "", cleanEndInfo |-> None] }
      \cup { [err |-> "",
              cleanEndInfo |-> Some([hasFile |-> TRUE, FileNum |-> o \div maxBytesPerFile,
                                     virtualEnd |-> o])] :
               o \in { x \in {0, 11, 22} :
                         /\ x >= qq.backend.diskQueueStart.virtualEnd
                         /\ x < qq.backend.diskReadEnd.virtualEnd } }

\* what the compactStore of TryCleanOldData finds
CleanEnvs == {e \in CompactEnvs : e.fileSize = CompactThreshold /\ ~e.rename}

DoCompactStore ==
    /\ q.exitFlag = 0
    /\ \E force \in BOOLEAN, env \in CompactEnvs :
         LET returned(x) ==
                 /\ q' = x.q
                 /\ last' = [op |-> "compactStore", err |-> x.err, force |-> force,
                             env |-> env]
         IN  returned(compactStore(q, force, env))
    /\ UNCHANGED <<r, bk, th, mu, appended>>

DoTryCleanOldData ==
    /\ q.exitFlag = 0
    /\ \E retentionSize \in {0, 11}, noRealClean \in BOOLEAN, maxCleanOffset \in {0},
          scan \in ScanEnds(q), env \in CleanEnvs :
         LET returned(x) ==
                 /\ q' = x.q
                 /\ last' = [op |-> "TryCleanOldData", err |-> x.err,
                             newStart |-> x.newStart]
         IN  returned(TryCleanOldData(q, retentionSize, noRealClean, maxCleanOffset,
                                      scan, env))
    /\ UNCHANGED <<r, bk, th, mu, appended>>

\* replica puts at the write end; the size handed to the raw put is none or wrong
SyncPutMessage == PutMessageOnReplicaCall({NoFailure}, {0}, {-1})

SyncPutRawData == PutRawDataOnReplicaCall({NoFailure}, {0}, {-1, 1}, {1})

NextSync ==
    \/ DoPutDelayMessage
    \/ SyncPutMessage
    \/ SyncPutRawData
    \/ DoConfirmedMessage
    \/ DoEmptyDelayedChannel
    \/ DoForceFlush
    \/ DoCompactStore
    \/ DoTryCleanOldData

SpecSync == Init /\ [][NextSync]_vars

\* the calls that put, and the calls C12 says keep synced_offset at the write end
Puts == {"PutDelayMessage", "PutMessageOnReplica", "PutRawDataOnReplica"}
Keepers == Removers \cup {"compactStore", "TryCleanOldData"}

\* C12: after every PutDelayMessage, PutMessageOnReplica or PutRawDataOnReplica that
\* returns no error GetSyncedOffset returns the virtual offset of the write end; and a
\* confirm, an empty call, UpdateConsumedState, compactStore or TryCleanOldData made
\* while the two are equal leaves them equal.
C12_SyncedIsWriteEnd ==
    [][ /\ (last'.op \in Puts /\ last'.err = "")
             => /\ GetSyncedOffset(q').err = ""
                /\ SyncedOf(q') = q'.backend.diskWriteEnd.virtualEnd
        /\ (/\ last'.op \in Keepers
            /\ GetSyncedOffset(q).err = ""
            /\ SyncedOf(q) = q.backend.diskWriteEnd.virtualEnd)
             => /\ GetSyncedOffset(q').err = ""
                /\ SyncedOf(q') = q'.backend.diskWriteEnd.virtualEnd
      ]_vars

(***************************************************************************)
(* Properties of the three positions of the writer                         *)
(***************************************************************************)
(***************************************************************************)
(* The state machine of the bare writer whose callers hand rollbacks and   *)
(* resets any message count the writer accepts.                            *)
(***************************************************************************)
\* no append is made once the message count has reached this value
MaxCnt == 2

AnyPutRawV2 ==
    /\ q.backend.diskWriteEnd.virtualEnd < MaxLogOffset
    /\ q.backend.diskWriteEnd.totalMsgCnt < MaxCnt
    /\ \E dataLen \in {12}, msgCnt \in {1} :
         LET returned(x) == Returned("PutRawV2", x.d, x.err, x.offset, msgCnt)
         IN  returned(PutRawV2(q.backend, dataLen, msgCnt, FALSE))

AnyRollbackWriteV2 ==
    /\ q.backend.exitFlag = 0
    /\ \E back \in {0, 12}, diffCnt \in 0..2 :
         LET returned(x, offset) ==
                 Returned("RollbackWriteV2", x.d, x.err, offset, diffCnt)
             call(offset) == returned(RollbackWriteV2(q.backend, offset, diffCnt), offset)
         IN  /\ q.backend.diskWriteEnd.virtualEnd >= back
             /\ call(q.backend.diskWriteEnd.virtualEnd - back)

AnyResetWriteEndV2 ==
    /\ q.backend.exitFlag = 0
    /\ \E offset \in {0, 12, 24}, totalCnt \in 0..2 :
         LET returned(x) == Returned("ResetWriteEndV2", x.d, x.err, offset, totalCnt)
         IN  returned(ResetWriteEndV2(q.backend, offset, totalCnt))

NextLogAny ==
    \/ AnyPutRawV2
    \/ LogFlush
    \/ AnyRollbackWriteV2
    \/ AnyResetWriteEndV2
    \/ LogCleanOldDataByRetention

SpecLogAny == Init /\ [][NextLogAny]_vars

\* a is not after b in each coordinate: the file number, the position (file number,
\* then offset within the file), the virtual offset and the message count
EndLeq(a, b) ==
    /\ a.FileNum <= b.FileNum
    /\ (a.FileNum < b.FileNum \/ a.Pos <= b.Pos)
    /\ a.virtualEnd <= b.virtualEnd
    /\ a.totalMsgCnt <= b.totalMsgCnt

\* C13: in every state of the writer the queue start is not after the read end and the
\* read end is not after the write end, in file number, position, virtual offset and
\* message count.
C13_StartReadWriteOrdered ==
    /\ EndLeq(q.backend.diskQueueStart, q.backend.diskReadEnd)
    /\ EndLeq(q.backend.diskReadEnd, q.backend.diskWriteEnd)

(***************************************************************************)
(* PeekAll over rows of several types, channels and delivery times         *)
(***************************************************************************)
ChanAA == <<97, 97>>

\* a delivery time more than a year after every value of time.Now()
LateTs == 24 * 365 * Hour + 2

\* messages of two channels whose names differ in length, due now, soon, or in more
\* than a year, and a message of another type
PeekAllMsgs ==
    { Message(0, ChannelDelayed, ts, 5, ch, Body1) : ts \in {1, 2, LateTs},
                                                      ch \in {ChanB, ChanAA} }
        \cup { Message(0, PubDelayed, 1, 0, <<>>, Body1) }

PeekAllPut ==
    /\ CanAppend(q)
    /\ \E m \in PeekAllMsgs :
         LET returned(x) ==
                 /\ q' = x.q
                 /\ last' = [op |-> "PutDelayMessage", err |-> x.err,
                             m |-> [m EXCEPT !.ID = x.id], pre |-> q.kvStore]
         IN  returned(PutDelayMessage(q, m, NoFailure))
    /\ UNCHANGED <<r, bk, th, mu, appended>>

\* PeekAll with a results slice that holds every row of the store
DoPeekAll ==
    /\ \E now \in Nows, spare \in {0, 1} :
         LET returned(x) ==
                 /\ q' = x.q
                 /\ last' = [op |-> "PeekAll", err |-> x.err, results |-> x.results,
                             now |-> now]
         IN  returned(PeekAll(q, Cardinality(DOMAIN q.kvStore.msg) + spare, now))
    /\ UNCHANGED <<r, bk, th, mu, appended>>

NextPeekAll ==
    \/ PeekAllPut
    \/ DoConfirmedMessage
    \/ DoPeekAll

SpecPeekAll == Init /\ [][NextPeekAll]_vars

\* message a comes before message b when ordered by type, then channel name, then
\* delivery time, then id
ByChannelName(a, b) ==
    \/ a.DelayedType < b.DelayedType
    \/ /\ a.DelayedType = b.DelayedType
       /\ \/ BytesLess(a.DelayedChannel, b.DelayedChannel)
          \/ /\ a.DelayedChannel = b.DelayedChannel
             /\ \/ a.DelayedTs < b.DelayedTs
                \/ a.DelayedTs = b.DelayedTs /\ a.ID < b.ID

\* message a comes before message b when ordered by type, then length of the channel
\* name, then channel name, then delivery time, then id
ByChannelLength(a, b) ==
    \/ a.DelayedType < b.DelayedType
    \/ /\ a.DelayedType = b.DelayedType
       /\ \/ Len(a.DelayedChannel) < Len(b.DelayedChannel)
          \/ /\ Len(a.DelayedChannel) = Len(b.DelayedChannel)
             /\ ByChannelName(a, b)

\* the results hold exactly the messages of S, each once, in the order less
InOrder(results, S, less(_, _)) ==
    /\ Len(results) = Cardinality(S)
    /\ {results[i] : i \in 1..Len(results)} = S
    /\ \A i, j \in 1..Len(results) : i < j => less(results[i], results[j])

\* C14 as stated: PeekAll with a buffer as large as the store returns exactly the
\* stored messages, each once, in ascending order of (type, channel, deliverAt, id).
C14_PeekAllSortedByChannel ==
    last.op = "PeekAll" => InOrder(last.results, StoredMsgs(q), ByChannelName)

\* C14: PeekAll with a buffer as large as the store returns, each once and in ascending
\* order of (type, length of the channel name, channel, deliverAt, id), the stored
\* messages that come in that order before every message due later than a year from
\* now; these are all the stored messages when none is due that late.
C14_PeekAllKeyOrder ==
    last.op = "PeekAll" =>
        InOrder(last.results,
                {m \in StoredMsgs(q) :
                    \A x \in StoredMsgs(q) :
                        x.DelayedTs > last.now + 24 * 365 * Hour => ByChannelLength(m, x)},
                ByChannelLength)

\* PeekAll returned two messages of one channel of which the one put later comes first
C14_Witness ==
    /\ last.op = "PeekAll"
    /\ Len(last.results) = 2
    /\ last.results[1].DelayedChannel = last.results[2].DelayedChannel
    /\ last.results[1].DelayedType = ChannelDelayed
    /\ last.results[1].ID > last.results[2].ID

(***************************************************************************)
(* The state machine of a compaction running beside the calls of one       *)
(* writer thread.  compactStore takes three steps: the checks made before  *)
(* compactMutex is taken, compactMutex.Lock() with the copy, and the swap  *)
(* with compactMutex.Unlock().  put takes the steps of PutDelayMessage     *)
(* above, its store transaction under compactMutex.  ConfirmedMessage      *)
(* takes compactMutex and then the store handle.  emptyAllDelayedType      *)
(* takes the store handle (db := q.getStore()) and then compactMutex.      *)
(***************************************************************************)
Mutator == 1
Compactor == 2

CompactBegin ==
    /\ th[Compactor].pc = "idle"
    /\ \E force \in BOOLEAN, env \in CompactEnvs :
         IF compactSkips(q, force, env)
         THEN /\ last' = [op |-> "compactStore", err |-> "", copied |-> FALSE]
              /\ UNCHANGED th
         ELSE /\ th' = [th EXCEPT ![Compactor] = [pc |-> "compactWait", env |-> env]]
              /\ last' = [op |-> "compactBegin", err |-> ""]
    /\ UNCHANGED <<q, r, bk, mu, appended>>

\* q.compactMutex.Lock() and compactBolt(dst, src, time.Second*2)
CompactCopy ==
    /\ th[Compactor].pc = "compactWait"
    /\ lockFree(mu)
    /\ LET copied(c) ==
               IF c.err # ""
               THEN /\ th' = [th EXCEPT ![Compactor] = IdleThreads[Compactor]]
                    /\ last' = [op |-> "compactStore", err |-> c.err, copied |-> FALSE]
                    /\ UNCHANGED mu
               ELSE /\ th' = [th EXCEPT ![Compactor] = [pc |-> "copied", dst |-> c.s,
                                                        env |-> th[Compactor].env]]
                    /\ last' = [op |-> "compactBolt", err |-> ""]
                    /\ mu' = Some(Compactor)
       IN  copied(compactBolt(q.kvStore, th[Compactor].env.slow))
    /\ UNCHANGED <<q, r, bk, appended>>

\* q.kvStore.Close(), os.Rename, reOpenStore, and the deferred compactMutex.Unlock():
\* a handle that emptyAllDelayedType took before is now a closed one
CompactSwap ==
    /\ th[Compactor].pc = "copied"
    /\ LET swapped(x) ==
               /\ q' = x.q
               /\ last' = [op |-> "compactStore", err |-> x.err, copied |-> TRUE]
       IN  swapped(compactSwap(q, th[Compactor].dst, th[Compactor].env))
    /\ th' = [th EXCEPT ![Compactor] = IdleThreads[Compactor],
                        ![Mutator] = IF @.pc = "emptyWait"
                                     THEN [@ EXCEPT !.closed = TRUE] ELSE @]
    /\ mu' = None
    /\ UNCHANGED <<r, bk, appended>>

CompactPutEncode == PutterEncode(Mutator)

CompactPutAppend == PutterAppend(Mutator)

CompactPutCommit == lockFree(mu) /\ PutterCommit(Mutator)

CompactPutReturn == PutterReturn(Mutator)

CompactConfirm ==
    /\ th[Mutator].pc = "idle"
    /\ lockFree(mu)
    /\ \E m \in {Swapped(x) : x \in StoredMsgs(q)} :
         LET returned(x) ==
                 /\ q' = x.q
                 /\ last' = [op |-> "ConfirmedMessage", err |-> x.err, m |-> m]
         IN  returned(ConfirmedMessage(q, m))
    /\ UNCHANGED <<r, bk, th, mu, appended>>

\* EmptyDelayedChannel up to db := q.getStore()
CompactEmptyGetStore ==
    /\ th[Mutator].pc = "idle"
    /\ \E ch \in Chans :
         th' = [th EXCEPT ![Mutator] = [pc |-> "emptyWait", ch |-> ch, closed |-> FALSE]]
    /\ last' = [op |-> "getStore", err |-> ""]
    /\ UNCHANGED <<q, r, bk, mu, appended>>

\* the rest of emptyAllDelayedType: compactMutex.Lock(), the transactions on db (which
\* fail on a closed handle), the hint
CompactEmptyRun ==
    /\ th[Mutator].pc = "emptyWait"
    /\ lockFree(mu)
    /\ \E now \in Nows :
         LET returned(x) ==
                 /\ q' = x.q
                 /\ last' = [op |-> "EmptyDelayedChannel", err |-> x.err]
         IN  returned(IF th[Mutator].closed THEN QRet(q, "database not open")
                      ELSE EmptyDelayedChannel(q, th[Mutator].ch, now))
    /\ th' = [th EXCEPT ![Mutator] = IdleThreads[Mutator]]
    /\ UNCHANGED <<r, bk, mu, appended>>

NextCompact ==
    \/ CompactBegin
    \/ CompactCopy
    \/ CompactSwap
    \/ CompactPutEncode
    \/ CompactPutAppend
    \/ CompactPutCommit
    \/ CompactPutReturn
    \/ CompactConfirm
    \/ CompactEmptyGetStore
    \/ CompactEmptyRun
    \/ DoPeek

SpecCompact == Init /\ [][NextCompact]_vars

\* the message ids and channels asked of IsChannelMessageDelayed
DelayedQueries == {<<id, ch>> : id \in {5, 6}, ch \in Chans}

\* two engines answer every Peek, GetCurrentDelayedCnt, IsChannelMessageDelayed and
\* GetSyncedOffset alike
SameResults(a, b) ==
    /\ SameAnswers(a, b)
    /\ \A d \in DelayedQueries :
         IsChannelMessageDelayed(a, d[1], d[2]) = IsChannelMessageDelayed(b, d[1], d[2])

\* C15 as stated: a compaction that has copied the store leaves every Peek,
\* GetCurrentDelayedCnt, IsChannelMessageDelayed and GetSyncedOffset as it was and the
\* three keyspaces as the calls beside it have committed them.
C15_CompactionKeepsResults ==
    [][ (last'.op = "compactStore" /\ last'.copied)
        => /\ SameResults(q, q')
           /\ q'.kvStore = q.kvStore
      ]_vars

(***************************************************************************)
(* The state machine of a DelayQueue that is closed: puts                  *)
(* before and after Close, and the calls that move the write end of the   *)
(* log after Close.                                                        *)
(***************************************************************************)
DoClose ==
    /\ LET returned(x) ==
               /\ q' = x.q
               /\ last' = [op |-> "Close", err |-> x.err]
       IN  returned(Close(q))
    /\ UNCHANGED <<r, bk, th, mu, appended>>

\* RollbackNoLock called after Close
DoRollbackNoLock ==
    /\ q.exitFlag = 1
    /\ \E back \in {0, 11, 12}, diffCnt \in {0, 1} :
         LET returned(x) ==
                 /\ q' = x.q
                 /\ last' = [op |-> "RollbackNoLock", err |-> x.err]
         IN  returned(RollbackNoLock(q, q.backend.diskWriteEnd.virtualEnd - back, diffCnt))
    /\ UNCHANGED <<r, bk, th, mu, appended>>

\* ResetBackendEndNoLock called after Close
DoResetBackendEndNoLock ==
    /\ q.exitFlag = 1
    /\ \E vend \in {0, 11, 12}, totalCnt \in {0, 1} :
         LET returned(x) ==
                 /\ q' = x.q
                 /\ last' = [op |-> "ResetBackendEndNoLock", err |-> x.err]
         IN  returned(ResetBackendEndNoLock(q, vend, totalCnt))
    /\ UNCHANGED <<r, bk, th, mu, appended>>

NextExit ==
    \/ DoPutDelayMessage
    \/ DoPutMessageOnReplica
    \/ DoClose
    \/ DoRollbackNoLock
    \/ DoResetBackendEndNoLock

SpecExit == Init /\ [][NextExit]_vars

\* C16: once Close has set the exit flag, every call that would change the engine returns
\* the exiting error and leaves the engine as it was.
C16_MutationsRejectedAfterExit ==
    [][ q.exitFlag = 1 => (last'.err = "exiting" /\ q' = q) ]_vars

(***************************************************************************)
(* The state machine of the bare writer with rollbacks to any target       *)
(***************************************************************************)
\* targets of RollbackWrite: record boundaries, the byte after one, the start of the
\* second file
RollbackTargets == {0, 12, 13, 24, 36, 37}

TargetRollbackWriteV2 ==
    /\ q.backend.exitFlag = 0
    /\ \E offset \in RollbackTargets, diffCnt \in 0..2 :
         LET returned(x) == Returned("RollbackWriteV2", x.d, x.err, offset, diffCnt)
         IN  returned(RollbackWriteV2(q.backend, offset, diffCnt))

NextRollback ==
    \/ AnyPutRawV2
    \/ LogFlush
    \/ TargetRollbackWriteV2
    \/ LogCleanOldDataByRetention

SpecRollback == Init /\ [][NextRollback]_vars

\* what the claim requires of a target and a count, for the writer d
RollbackAccepted(d, target, diffCnt) ==
    /\ d.diskQueueStart.virtualEnd <= target
    /\ target <= d.diskWriteEnd.virtualEnd
    /\ target >= d.diskWriteEnd.virtualEnd - d.diskWriteEnd.Pos
    /\ d.diskWriteEnd.totalMsgCnt - diffCnt >= d.diskQueueStart.totalMsgCnt

\* a call of RollbackWrite succeeds exactly when the claim's condition holds, and fails
\* with the invalid-offset error, the write end and the queue start left as they were
RollbackDecided ==
    /\ (last'.err = "") = RollbackAccepted(q.backend, last'.offset, last'.cnt)
    /\ last'.err # "" =>
         /\ last'.err = "invalid offset"
         /\ q'.backend.diskWriteEnd = q.backend.diskWriteEnd
         /\ q'.backend.diskQueueStart = q.backend.diskQueueStart

\* C17 as stated: RollbackWrite succeeds exactly when the target is between the queue
\* start and the write end, not before the first byte of the current write file, and
\* the count stays at or above the queue start's; every rejection has the invalid-offset
\* error and leaves the write end, the read end and the queue start unchanged.
C17_RejectionChangesNothing ==
    [][ last'.op = "RollbackWriteV2"
        => /\ RollbackDecided
           /\ last'.err # "" => q'.backend.diskReadEnd = q.backend.diskReadEnd
      ]_vars

\* C17: RollbackWrite succeeds exactly when the target is between the queue start and
\* the write end, not before the first byte of the current write file, and the count
\* stays at or above the queue start's; every rejection has the invalid-offset error
\* and leaves the write end and the queue start unchanged; it leaves the read end
\* unchanged when the target is below the queue start or the count would fall below the
\* queue start's, and otherwise the read end is the write end if a sync was pending and
\* unchanged if none was.
C17_RollbackAcceptedExactly ==
    [][ last'.op = "RollbackWriteV2"
        => /\ RollbackDecided
           /\ last'.err # "" =>
                q'.backend.diskReadEnd =
                    IF /\ q.backend.needSync
                       /\ last'.offset >= q.backend.diskQueueStart.virtualEnd
                       /\ q.backend.diskWriteEnd.totalMsgCnt - last'.cnt
                              >= q.backend.diskQueueStart.totalMsgCnt
                    THEN q.backend.diskWriteEnd
                    ELSE q.backend.diskReadEnd
      ]_vars

\* a rollback that takes one message off the count has been accepted with the exact
\* start of the second file as its target
C17_Witness ==
    /\ last.op = "RollbackWriteV2"
    /\ last.err = ""
    /\ last.offset = 24
    /\ last.cnt = 1
    /\ q.backend.diskWriteEnd.FileNum = 1
    /\ q.backend.diskWriteEnd.Pos = 0

(***************************************************************************)
(* The state machine of one DelayQueue with the emptying calls that are    *)
(* given ChannelDelayed and no channel name.                               *)
(***************************************************************************)
\* EmptyDelayedType(ChannelDelayed): emptyAllDelayedType(ChannelDelayed, "")
EmptyChannelDelayedType ==
    /\ \E now \in Nows :
         LET returned(x) ==
                 /\ q' = x.q
                 /\ last' = [op |-> "EmptyDelayedType", err |-> x.err, ch |-> <<>>]
         IN  returned(EmptyDelayedType(q, ChannelDelayed, now))
    /\ UNCHANGED <<r, bk, th, mu, appended>>

\* EmptyDelayedChannel of a channel, or of no channel name
EmptyChannel ==
    /\ \E ch \in Chans \cup {<<>>}, now \in Nows :
         LET returned(x) ==
                 /\ q' = x.q
                 /\ last' = [op |-> "EmptyDelayedChannel", err |-> x.err, ch |-> ch]
         IN  returned(EmptyDelayedChannel(q, ch, now))
    /\ UNCHANGED <<r, bk, th, mu, appended>>

\* UpdateConsumedState with the key of a channel delayed message of no channel, and a
\* count of 0 for the channel of no name
UpdateConsumedNoChannel ==
    /\ \E ts \in {1, 3}, id \in {1, 9}, now \in Nows :
         LET returned(x) ==
                 /\ q' = x.q
                 /\ last' = [op |-> "UpdateConsumedState", err |-> x.err, ch |-> <<>>]
         IN  returned(UpdateConsumedState(q,
                          <<getDelayedMsgDBKey(ChannelDelayed, <<>>, ts, id)>>,
                          EmptyMap, MapPut(EmptyMap, <<>>, 0), now))
    /\ UNCHANGED <<r, bk, th, mu, appended>>

NextEmpty ==
    \/ DoPutDelayMessage
    \/ DoPutMessageOnReplica
    \/ DoPeek
    \/ EmptyChannelDelayedType
    \/ EmptyChannel
    \/ UpdateConsumedNoChannel

SpecEmpty == Init /\ [][NextEmpty]_vars

PutSizes == {minMsgSize - 1, minMsgSize, maxMsgSize, maxMsgSize + 1}

SizedPut ==
    /\ q.backend.diskWriteEnd.virtualEnd < MaxLogOffset
    /\ \E dataLen \in PutSizes :
         LET returned(x) ==
                 /\ q' = [q EXCEPT !.backend = x.d]
                 /\ last' = [op |-> "Put", err |-> x.err, offset |-> x.offset,
                             dataLen |-> dataLen]
         IN  returned(Put(q.backend, dataLen, FALSE))
    /\ UNCHANGED <<r, bk, th, mu, appended>>

NextSized ==
    \/ SizedPut
    \/ LogFlush
    \/ LogCleanOldDataByRetention

SpecSized == Init /\ [][NextSized]_vars

\* C19: Put of a record of minMsgSize or of maxMsgSize bytes succeeds and moves the write
\* end by the record's length plus its 4-byte prefix; Put of a record of minMsgSize - 1
\* or maxMsgSize + 1 bytes fails and leaves the position, the virtual offset and the
\* message count of the write end as they were.
C19_PutSizeLimits ==
    [][ last'.op = "Put"
        => IF last'.dataLen \in {minMsgSize, maxMsgSize}
           THEN /\ last'.err = ""
                /\ q'.backend.diskWriteEnd.virtualEnd
                       = q.backend.diskWriteEnd.virtualEnd + last'.dataLen + 4
                /\ q'.backend.diskWriteEnd.totalMsgCnt
                       = q.backend.diskWriteEnd.totalMsgCnt + 1
           ELSE /\ last'.err # ""
                /\ q'.backend.diskWriteEnd = q.backend.diskWriteEnd
      ]_vars

\* a Put of maxMsgSize + 1 bytes has been rejected by a writer that holds a record
C19_Witness ==
    /\ last.op = "Put"
    /\ last.dataLen = maxMsgSize + 1
    /\ last.err # ""
    /\ q.backend.diskWriteEnd.totalMsgCnt > 0

(***************************************************************************)
(* The state machine of an engine that is opened again on its data         *)
(* directory, after files of the directory have been lost.                 *)
(***************************************************************************)
\* what is lost before the engine is opened: meta.extra.dat, data file 0, the
\* offsetmeta sidecars
Losses == [extra : BOOLEAN, file0 : BOOLEAN, sidecars : BOOLEAN]

Lose(d, loss) ==
    [d EXCEPT !.extraMeta = IF loss.extra THEN None ELSE @,
              !.files = IF loss.file0 THEN MapDel(@, 0) ELSE @,
              !.offsetMeta = IF loss.sidecars THEN EmptyMap ELSE @]

\* NewDelayQueue on the directory of q less what is lost; r is the engine made, if any
DoNewDelayQueue ==
    /\ \E loss \in Losses :
         LET opened(x) ==
                 /\ r' = IF x.q = None THEN r ELSE x.q[1]
                 /\ last' = [op |-> "newDelayQueue", err |-> x.err, made |-> x.q # None,
                             loss |-> loss]
         IN  opened(newDelayQueue([q EXCEPT !.backend = Lose(@, loss)]))
    /\ UNCHANGED <<q, bk, th, mu, appended>>

NextOpen ==
    \/ DoPutDelayMessage
    \/ DoForceFlush
    \/ DoNewDelayQueue

SpecOpen == Init /\ [][NextOpen]_vars

\* C20: NewDelayQueue on a directory whose meta.dat holds a write end past file 0, with
\* no meta.extra.dat, no data file 0 and no sidecar, makes an engine whose IsDataNeedFix
\* is true, whose queue start is its write end, and which answers PeekAll without error.
C20_OpenedNeedingFix ==
    (/\ last.op = "newDelayQueue"
     /\ last.loss = [extra |-> TRUE, file0 |-> TRUE, sidecars |-> TRUE]
     /\ q.backend.metaData # None
     /\ q.backend.metaData[1].FileNum > 0)
    => /\ last.made
       /\ IsDataNeedFix(r)
       /\ r.backend.diskQueueStart = r.backend.diskWriteEnd
       /\ \A now \in Nows : PeekAll(r, 2, now).err = ""

(***************************************************************************)
(* ConfirmedMessage of a message that has no row                           *)
(***************************************************************************)
\* the key ConfirmedMessage deletes at: the channel has swapped the ids, so the id of
\* the row is msg.DelayedOrigID
ConfirmedKey(msg) ==
    getDelayedMsgDBKey(msg.DelayedType, msg.DelayedChannel, msg.DelayedTs, msg.DelayedOrigID)

\* C21: ConfirmedMessage(m) when delayed_message has no row at m's key returns the
\* key-not-found error and leaves the store (rows, index and counters) and the rest of
\* the queue as they were; and no ConfirmedMessage lowers a counter without removing a
\* row, nor brings a counter below zero.
C21_ConfirmMissingKeyChangesNothing ==
    [][ last'.op = "ConfirmedMessage" =>
          /\ ConfirmedKey(last'.m) \notin DOMAIN q.kvStore.msg =>
                /\ last'.err = "bucket key not found"
                /\ q' = q
          /\ \A p \in CounterPairs :
                /\ GetCurrentDelayedCnt(q', p[1], p[2]) >= 0
                /\ GetCurrentDelayedCnt(q', p[1], p[2]) < GetCurrentDelayedCnt(q, p[1], p[2])
                      => /\ DOMAIN q'.kvStore.msg # DOMAIN q.kvStore.msg
                         /\ DOMAIN q'.kvStore.msg \subseteq DOMAIN q.kvStore.msg
      ]_vars

\* ConfirmedMessage of a stored message whose ids were not swapped found no row, while
\* the store holds rows and a counter above zero
C21_Witness ==
    /\ last.op = "ConfirmedMessage"
    /\ last.err = "bucket key not found"
    /\ last.m \in StoredMsgs(q)
    /\ GetCurrentDelayedCnt(q, last.m.DelayedType, last.m.DelayedChannel) > 0

(***************************************************************************)
(* The state machine of one queue whose log grows over three files while   *)
(* TryCleanOldData removes the oldest of them.                             *)
(***************************************************************************)
\* PutDelayMessage of a message of channel a, until the log has filled two files
CleanPut ==
    /\ q.backend.diskWriteEnd.virtualEnd < MaxLogOffset
    /\ \E m \in {Message(0, ChannelDelayed, ts, 5, ChanA, Body1) : ts \in {1, 2}} :
         LET returned(x) ==
                 /\ q' = x.q
                 /\ last' = [op |-> "PutDelayMessage", err |-> x.err]
         IN  returned(PutDelayMessage(q, m, NoFailure))
    /\ UNCHANGED <<r, bk, th, mu, appended>>

\* ConfirmedMessage of a stored message, as the channel hands it over
CleanConfirmedMessage ==
    /\ \E m \in {Swapped(x) : x \in StoredMsgs(q)} :
         LET returned(x) ==
                 /\ q' = x.q
                 /\ last' = [op |-> "ConfirmedMessage", err |-> x.err]
         IN  returned(ConfirmedMessage(q, m))
    /\ UNCHANGED <<r, bk, th, mu, appended>>

\* the file a log offset lies in
FileOf(d, o) ==
    IF \E n \in DOMAIN d.offsetMeta : d.offsetMeta[n][2] <= o /\ o < d.offsetMeta[n][3]
    THEN CHOOSE n \in DOMAIN d.offsetMeta : d.offsetMeta[n][2] <= o /\ o < d.offsetMeta[n][3]
    ELSE d.diskReadEnd.FileNum

\* what the scan of TryCleanOldData ends with: a read error, no record accepted, or the
\* position of one of the records between the queue start and the read end
CleanScanEnds(qq) ==
    { [err |-> "read", cleanEndInfo |-> None], [err |-> "", cleanEndInfo |-> None] }
      \cup { [err |-> "",
              cleanEndInfo |-> Some([hasFile |-> TRUE, FileNum |-> FileOf(qq.backend, o),
                                     virtualEnd |-> o])] :
               o \in { x \in {0, 12, 24, 36} :
                         /\ x >= qq.backend.diskQueueStart.virtualEnd
                         /\ x < qq.backend.diskReadEnd.virtualEnd } }

CleanTryCleanOldData ==
    /\ q.exitFlag = 0
    /\ \E retentionSize \in {0, 12}, noRealClean \in BOOLEAN, maxCleanOffset \in {0, 24},
          scan \in CleanScanEnds(q), env \in CleanEnvs :
         LET returned(x) ==
                 /\ q' = x.q
                 /\ last' = [op |-> "TryCleanOldData", err |-> x.err,
                             newStart |-> x.newStart, noRealClean |-> noRealClean]
         IN  returned(TryCleanOldData(q, retentionSize, noRealClean, maxCleanOffset,
                                      scan, env))
    /\ UNCHANGED <<r, bk, th, mu, appended>>

NextClean ==
    \/ CleanPut
    \/ CleanConfirmedMessage
    \/ DoEmptyDelayedChannel
    \/ DoForceFlush
    \/ CleanTryCleanOldData

SpecClean == Init /\ [][NextClean]_vars

\* the messages a Peek of deadline peekTs and filter f returns into a buffer that has
\* room for every row
PeekedOf(qq, peekTs, f) ==
    LET res == PeekRecentTimeoutWithFilter(qq, Cardinality(DOMAIN qq.kvStore.msg) + 1,
                                           peekTs, f[1], f[2]).results
    IN  {res[i] : i \in 1..Len(res)}

\* C22: TryCleanOldData, dry run or real, leaves every row of delayed_message and of
\* delayed_message_index, every counter and synced_offset as they were, and the write
\* end where it was; every message a Peek returned before it, the Peek returns after
\* it, and after it every stored message of deadline peekTs or earlier comes back from
\* the unfiltered Peek.
C22_CleanKeepsIndexAndWriteEnd ==
    [][ last'.op = "TryCleanOldData" =>
          /\ q'.kvStore = q.kvStore
          /\ q'.backend.diskWriteEnd = q.backend.diskWriteEnd
          /\ GetSyncedOffset(q') = GetSyncedOffset(q)
          /\ \/ q' = q
             \/ \A peekTs \in {1, 2}, f \in PeekFilters :
                  PeekedOf(q, peekTs, f) \subseteq PeekedOf(q', peekTs, f)
          /\ \A m \in StoredMsgs(q') : m \in PeekedOf(q', m.DelayedTs, <<-1, <<>> >>)
      ]_vars

\* a real TryCleanOldData has compacted the store and moved the queue start to the
\* second file, whose records are still rows of the store
C22_Witness ==
    /\ last.op = "TryCleanOldData"
    /\ last.err = ""
    /\ ~last.noRealClean
    /\ last.newStart # None
    /\ q.backend.diskQueueStart.FileNum = 1
    /\ 0 \notin DOMAIN q.backend.files
    /\ q.oldestChannelDelayedTs = EmptyMap
    /\ \E m \in StoredMsgs(q) : m.ID \in {1, 2}

(***************************************************************************)
(* The state machine of one queue on which a put runs beside a Peek or an  *)
(* EmptyDelayedChannel of the same channel: the put holds compactMutex for *)
(* its store transaction and oldestMutex for its hint update, the Peek     *)
(* reads the store in one View and writes the hint afterwards, the empty   *)
(* deletes under compactMutex and writes the hint afterwards.              *)
(***************************************************************************)
Peeker == 2

\* PutDelayMessage up to the encoding, of a message of channel a
HintPutEncode ==
    /\ th[Mutator].pc = "idle"
    /\ CanAppend(q)
    /\ \E m \in {Message(0, ChannelDelayed, ts, 5, ChanA, Body1) : ts \in {1, 2}} :
         /\ th' = [th EXCEPT ![Mutator] = [pc |-> "encoded",
                                           m |-> [m EXCEPT !.ID = q.defaultIDSeq + 1],
                                           offset |-> 0, writeBytes |-> 0, dend |-> ZeroEnd]]
         /\ q' = [q EXCEPT !.defaultIDSeq = @ + 1,
                           !.putBuffer = WriteDelayedTo([m EXCEPT !.ID = q.defaultIDSeq + 1])]
    /\ last' = [op |-> "encode", err |-> "", t |-> Mutator]
    /\ UNCHANGED <<r, bk, mu, appended>>

HintPutAppend == PutterAppend(Mutator)

HintPutCommit == PutterCommit(Mutator)

HintPutReturn == PutterReturn(Mutator)

\* PeekRecentTimeoutWithFilter(ChannelDelayed, a) up to the end of db.View: the hint
\* test, then the cursor loop
HintPeekView ==
    /\ th[Peeker].pc = "idle"
    /\ \E peekTs \in {1, 2} :
         IF peekIgnoredByHint(q.oldestChannelDelayedTs, peekTs, ChannelDelayed, ChanA)
         THEN /\ last' = [op |-> "PeekRecentTimeoutWithFilter", err |-> "",
                          results |-> <<>>, peekTs |-> peekTs, ignored |-> TRUE]
              /\ UNCHANGED th
         ELSE LET viewed(acc) ==
                      /\ th' = [th EXCEPT ![Peeker] = [pc |-> "viewed", oldest |-> acc.oldest,
                                                       results |-> acc.results,
                                                       peekTs |-> peekTs]]
                      /\ last' = [op |-> "View", err |-> ""]
              IN  viewed(peekLoop(q.kvStore,
                                  Seek(q.kvStore.msg,
                                       getDelayedMsgDBPrefixKey(ChannelDelayed, ChanA)),
                                  getDelayedMsgDBPrefixKey(ChannelDelayed, ChanA),
                                  2, peekTs, ChannelDelayed, ChanA,
                                  [oldest |-> 0, results |-> <<>>]))
    /\ UNCHANGED <<q, r, bk, mu, appended>>

\* the rest of PeekRecentTimeoutWithFilter: the hint under oldestMutex, the return
HintPeekReturn ==
    /\ th[Peeker].pc = "viewed"
    /\ q' = IF th[Peeker].oldest > 0
            THEN [q EXCEPT !.oldestChannelDelayedTs = MapPut(@, ChanA, th[Peeker].oldest)]
            ELSE q
    /\ last' = [op |-> "PeekRecentTimeoutWithFilter", err |-> "",
                results |-> th[Peeker].results, peekTs |-> th[Peeker].peekTs,
                ignored |-> FALSE]
    /\ th' = [th EXCEPT ![Peeker] = IdleThreads[Peeker]]
    /\ UNCHANGED <<r, bk, mu, appended>>

\* EmptyDelayedChannel(a) up to the end of its batch loop, under compactMutex
HintEmptyRows ==
    /\ th[Peeker].pc = "idle"
    /\ LET emptied(t) ==
               /\ t.err = ""
               /\ q' = [q EXCEPT !.kvStore = t.s]
       IN  emptied(emptyAllLoop(q.kvStore, ChannelDelayed, ChanA))
    /\ th' = [th EXCEPT ![Peeker] = [pc |-> "emptied"]]
    /\ last' = [op |-> "emptyAllLoop", err |-> ""]
    /\ UNCHANGED <<r, bk, mu, appended>>

\* the rest of emptyAllDelayedType: the hint under oldestMutex, the return
HintEmptyReturn ==
    /\ th[Peeker].pc = "emptied"
    /\ \E now \in Nows :
         q' = [q EXCEPT !.oldestChannelDelayedTs = MapPut(@, ChanA, now + Hour)]
    /\ th' = [th EXCEPT ![Peeker] = IdleThreads[Peeker]]
    /\ last' = [op |-> "EmptyDelayedChannel", err |-> ""]
    /\ UNCHANGED <<r, bk, mu, appended>>

NextHint ==
    \/ HintPutEncode
    \/ HintPutAppend
    \/ HintPutCommit
    \/ HintPutReturn
    \/ HintPeekView
    \/ HintPeekReturn
    \/ HintEmptyRows
    \/ HintEmptyReturn
    \/ CleanConfirmedMessage
    \/ DoCompactStore

SpecHint == Init /\ [][NextHint]_vars

\* the delivery times of the live ChannelDelayed rows of channel ch
LiveTs(qq, ch) == {decodeDelayedMsgDBKey(k).ts : k \in RowsOf(qq, ChannelDelayed, ch)}

\* C23: in every reachable state, for every channel that has an entry in the
\* oldest-delivery hint map, no live ChannelDelayed row of that channel has a delivery
\* time below the hint (so that the hint test of Peek never returns 0 while a message
\* of the channel that is due at the deadline is live).
C23_HintIsLowerBound ==
    \A ch \in DOMAIN q.oldestChannelDelayedTs :
      \A ts \in LiveTs(q, ch) : ts >= q.oldestChannelDelayedTs[ch]

(***************************************************************************)
(* The state machine of one queue that is compacted between puts and       *)
(* confirms, with a store file just below or at CompactThreshold.          *)
(***************************************************************************)
\* what compactStore finds: the size of the store file, and a copy slower than
\* maxCompactTime
ThresholdEnvs ==
    { [fileSize |-> size, slow |-> slow, rename |-> FALSE] :
        size \in {CompactThreshold - 1, CompactThreshold}, slow \in BOOLEAN }

ThresholdCompactStore ==
    /\ \E force \in BOOLEAN, env \in ThresholdEnvs :
         LET returned(x) ==
                 /\ q' = x.q
                 /\ last' = [op |-> "compactStore", err |-> x.err, force |-> force,
                             env |-> env]
         IN  returned(compactStore(q, force, env))
    /\ UNCHANGED <<r, bk, th, mu, appended>>

NextThreshold ==
    \/ CleanPut
    \/ CleanConfirmedMessage
    \/ ThresholdCompactStore

SpecThreshold == Init /\ [][NextThreshold]_vars

\* the sum of the counters, as GetCurrentDelayedCnt returns them
CounterSum(qq) ==
    LET RECURSIVE sum(_)
        sum(P) == IF P = {} THEN 0
                  ELSE LET p == CHOOSE x \in P : TRUE
                       IN  GetCurrentDelayedCnt(qq, p[1], p[2]) + sum(P \ {p})
    IN  sum(CounterPairs)

\* a compactStore that returns no error has rewritten the store when the queue has
\* reopened it: the hint map that was not empty is a new, empty one
Rewrote(qq, qn) ==
    /\ qq.oldestChannelDelayedTs # EmptyMap
    /\ qn.oldestChannelDelayedTs = EmptyMap

\* C24 as stated: a compactStore that is not forced rewrites the store exactly when the
\* store file has at least CompactThreshold bytes and the sum of the counters is
\* strictly below CompactCntThreshold; a forced one always rewrites.
C24_CompactsBelowCntThreshold ==
    [][ (/\ last'.op = "compactStore"
         /\ last'.err = ""
         /\ q.oldestChannelDelayedTs # EmptyMap)
          => (Rewrote(q, q')
                <=> \/ last'.force
                    \/ /\ last'.env.fileSize >= CompactThreshold
                       /\ CounterSum(q) < CompactCntThreshold)
      ]_vars

\* C24: a compactStore that returns no error has rewritten the store exactly when it was
\* forced, or the store file has at least CompactThreshold bytes and the sum of the
\* counters is at most CompactCntThreshold; and no compactStore, skipped, failed or
\* done, changes a row, an index entry or a cell of the meta bucket.
C24_CompactsUpToCntThreshold ==
    [][ last'.op = "compactStore" =>
          /\ (last'.err = "" /\ q.oldestChannelDelayedTs # EmptyMap)
               => (Rewrote(q, q')
                     <=> \/ last'.force
                         \/ /\ last'.env.fileSize >= CompactThreshold
                            /\ CounterSum(q) <= CompactCntThreshold)
          /\ q'.kvStore = q.kvStore
      ]_vars

\* a compactStore that was not forced has rewritten a store whose counters sum to
\* CompactCntThreshold
C24_Witness ==
    /\ last.op = "compactStore"
    /\ last.err = ""
    /\ ~last.force
    /\ last.env.fileSize = CompactThreshold
    /\ CounterSum(q) = CompactCntThreshold
    /\ q.oldestChannelDelayedTs = EmptyMap
    /\ Cardinality(RowsOf(q, ChannelDelayed, ChanA)) = CompactCntThreshold

(***************************************************************************)
(* The state machine of one queue created with any value of SyncEvery.     *)
(***************************************************************************)
\* the values of the field SyncEvery: negative, zero, one, and larger
SyncEverys == {-1, 0, 1, 2, 3}

InitSyncEvery ==
    /\ \E syncEvery \in SyncEverys : q = NewDelayQueue(syncEvery)
    /\ r = NewDelayQueue(2)
    /\ bk = None
    /\ last = [op |-> "NewDelayQueue", err |-> ""]
    /\ th = IdleThreads
    /\ mu = None
    /\ appended = <<>>

NextSyncEvery ==
    \/ CleanPut
    \/ CleanConfirmedMessage
    \/ DoForceFlush

SpecSyncEvery == InitSyncEvery /\ [][NextSyncEvery]_vars

\* the put that made the step from qq to qn has run flush: needFlush, which every put
\* sets, is clear, and lastSyncCnt and the read end are at the write end
Flushed(qq, qn) ==
    /\ qn.needFlush = 0
    /\ qn.lastSyncCnt = qn.backend.diskWriteEnd.totalMsgCnt
    /\ qn.backend.diskReadEnd = qn.backend.diskWriteEnd

\* C25: a successful put runs flush exactly when SyncEvery is 1 or the number of
\* messages written since the last flush has reached SyncEvery; when SyncEvery is zero
\* or negative a put never runs flush.
C25_FlushEverySyncEvery ==
    [][ (last'.op = "PutDelayMessage" /\ last'.err = "") =>
          /\ Flushed(q, q')
               <=> \/ q.SyncEvery = 1
                   \/ /\ q.SyncEvery > 0
                      /\ q'.backend.diskWriteEnd.totalMsgCnt - q.lastSyncCnt >= q.SyncEvery
          /\ q.SyncEvery <= 0 => ~Flushed(q, q')
      ]_vars

(***************************************************************************)
(* The state machine of one queue that holds rows of two channels and of   *)
(* PubDelayed and is emptied up to a delivery time and an id.              *)
(***************************************************************************)
\* the messages put: of channel a at two delivery times, of channel b, of PubDelayed
UntilMsgs ==
    { Message(0, ChannelDelayed, 1, 5, ChanA, Body1),
      Message(0, ChannelDelayed, 2, 6, ChanA, Body1),
      Message(0, ChannelDelayed, 1, 7, ChanB, Body1),
      Message(0, PubDelayed, 1, 0, <<>>, Body1) }

UntilPut ==
    /\ q.backend.diskWriteEnd.virtualEnd < MaxLogOffset - maxMsgSize
    /\ \E m \in UntilMsgs :
         LET returned(x) ==
                 /\ q' = x.q
                 /\ last' = [op |-> "PutDelayMessage", err |-> x.err]
         IN  returned(PutDelayMessage(q, m, NoFailure))
    /\ UNCHANGED <<r, bk, th, mu, appended>>

DoEmptyDelayedUntil ==
    /\ \E dt \in {ChannelDelayed, PubDelayed}, peekTs \in {1, 2}, id \in {0, 3, 5},
          ch \in {ChanA, <<>>} :
         LET returned(x) ==
                 /\ q' = x.q
                 /\ last' = [op |-> "emptyDelayedUntil", err |-> x.err, dt |-> dt,
                             peekTs |-> peekTs, id |-> id, ch |-> ch,
                             removed |-> Cardinality(DOMAIN q.kvStore.msg)
                                           - Cardinality(DOMAIN x.q.kvStore.msg)]
         IN  returned(emptyDelayedUntil(q, dt, peekTs, id, ch))
    /\ UNCHANGED <<r, bk, th, mu, appended>>

NextUntil ==
    \/ UntilPut
    \/ DoEmptyDelayedUntil

SpecUntil == Init /\ [][NextUntil]_vars

\* the row of key k is of (dt, ch) and its (delivery time, id) is below (peekTs, id)
BelowUntil(k, dt, peekTs, id, ch) ==
    LET dk == decodeDelayedMsgDBKey(k)
    IN  /\ dk.dt = dt
        /\ dk.ch = ch
        /\ \/ dk.ts < peekTs
           \/ dk.ts = peekTs /\ dk.id < id

\* C26: after emptyDelayedUntil(dt, peekTs, id, ch) has returned no error, the rows of
\* delayed_message are those it found less the rows of (dt, ch) whose (delivery time,
\* id) is below (peekTs, id), each with the value it had; and for ChannelDelayed with a
\* channel name the hint of the channel is peekTs.
C26_EmptyUntilRemovesExactlyBelow ==
    [][ last'.op = "emptyDelayedUntil" =>
          /\ last'.err = ""
          /\ DOMAIN q'.kvStore.msg =
                {k \in DOMAIN q.kvStore.msg :
                    ~BelowUntil(k, last'.dt, last'.peekTs, last'.id, last'.ch)}
          /\ \A k \in DOMAIN q'.kvStore.msg : q'.kvStore.msg[k] = q.kvStore.msg[k]
          /\ (last'.dt = ChannelDelayed /\ last'.ch # <<>>)
                => /\ last'.ch \in DOMAIN q'.oldestChannelDelayedTs
                   /\ q'.oldestChannelDelayedTs[last'.ch] = last'.peekTs
      ]_vars

\* emptyDelayedUntil of channel a up to (2, 5) has removed the three rows of channel a,
\* which takes more than one transaction, and has left the row of PubDelayed
C26_Witness ==
    /\ last.op = "emptyDelayedUntil"
    /\ last.err = ""
    /\ last.dt = ChannelDelayed
    /\ last.ch = ChanA
    /\ last.peekTs = 2
    /\ last.id = 5
    /\ q.backend.diskWriteEnd.totalMsgCnt = 4
    /\ last.removed = 3
    /\ RowsOf(q, ChannelDelayed, ChanA) = {}
    /\ Cardinality(RowsOf(q, PubDelayed, <<>>)) = 1
    /\ q.oldestChannelDelayedTs[ChanA] = 2

(***************************************************************************)
(* The state machine of one queue whose emptying calls take one step for   *)
(* each store transaction of their batch loop (the loop holds compactMutex *)
(* from its first transaction to its last, so no put commits in between).  *)
(***************************************************************************)
\* the emptying calls made: emptyDelayedUntil and emptyAllDelayedType of channel a,
\* and emptyAllDelayedType of PubDelayed
BatchCalls ==
    { [fn |-> "emptyDelayedUntil", dt |-> ChannelDelayed, peekTs |-> 2, id |-> 5,
       ch |-> ChanA],
      [fn |-> "emptyAllDelayedType", dt |-> ChannelDelayed, peekTs |-> 0, id |-> 0,
       ch |-> ChanA],
      [fn |-> "emptyAllDelayedType", dt |-> PubDelayed, peekTs |-> 0, id |-> 0,
       ch |-> <<>>] }

BatchPut ==
    /\ th[Mutator].pc = "idle"
    /\ UntilPut

\* the call up to compactMutex.Lock()
BatchBegin ==
    /\ th[Mutator].pc = "idle"
    /\ \E c \in BatchCalls :
         th' = [th EXCEPT ![Mutator] = [pc |-> "emptying", call |-> c]]
    /\ last' = [op |-> "compactMutex.Lock", err |-> ""]
    /\ UNCHANGED <<q, r, bk, mu, appended>>

\* one pass of the batch loop: one db.Update, then the test of batched
BatchTx ==
    /\ th[Mutator].pc = "emptying"
    /\ \E c \in {th[Mutator].call} :
       \E prefix \in {getDelayedMsgDBPrefixKey(c.dt, c.ch)} :
       \E keys \in {Seek(q.kvStore.msg, prefix)} :
       \E acc \in {IF c.fn = "emptyDelayedUntil"
                   THEN emptyUntilTx(keys, prefix, c.dt, c.peekTs, c.id, c.ch,
                                     [s |-> q.kvStore, batched |-> 0, err |-> ""])
                   ELSE emptyAllTx(keys, prefix, c.dt, c.ch,
                                   [s |-> q.kvStore, batched |-> 0, err |-> ""])} :
         /\ q' = [q EXCEPT !.kvStore = IF acc.err # "" THEN @ ELSE acc.s]
         /\ th' = [th EXCEPT ![Mutator] =
                      IF acc.err # "" THEN IdleThreads[Mutator]
                      ELSE IF acc.batched = 0
                      THEN [pc |-> "emptied", call |-> c]
                      ELSE @]
         /\ last' = [op |-> "Update", err |-> acc.err,
                     deleted |-> Cardinality(DOMAIN q.kvStore.msg)
                                   - Cardinality(DOMAIN acc.s.msg)]
    /\ UNCHANGED <<r, bk, mu, appended>>

\* after the loop: the hint of the channel, the return
BatchReturn ==
    /\ th[Mutator].pc = "emptied"
    /\ \E now \in Nows :
         LET c == th[Mutator].call
         IN  q' = [q EXCEPT !.oldestChannelDelayedTs =
                      IF c.dt = ChannelDelayed /\ c.ch # <<>>
                      THEN MapPut(@, c.ch, IF c.fn = "emptyDelayedUntil" THEN c.peekTs
                                           ELSE now + Hour)
                      ELSE @]
    /\ last' = [op |-> th[Mutator].call.fn, err |-> ""]
    /\ th' = [th EXCEPT ![Mutator] = IdleThreads[Mutator]]
    /\ UNCHANGED <<r, bk, mu, appended>>

NextBatch ==
    \/ BatchPut
    \/ BatchBegin
    \/ BatchTx
    \/ BatchReturn

\* a call that has begun is scheduled until it returns
SpecBatch ==
    /\ Init
    /\ [][NextBatch]_vars
    /\ WF_vars(BatchTx \/ BatchReturn)

\* the batch loop ends: a call that has taken compactMutex returns
BatchLoopEnds == (th[Mutator].pc = "emptying") ~> (th[Mutator].pc = "idle")

\* C27: in emptyDelayedUntil and emptyAllDelayedType no store transaction deletes more
\* than txMaxBatch rows, and the batch loop ends after the first transaction that
\* deletes nothing, which every call reaches.
C27_BatchesWithinTxMaxBatch ==
    /\ [](last.op = "Update" => last.deleted <= txMaxBatch)
    /\ [][ (th[Mutator].pc = "emptying" /\ th'[Mutator].pc = "emptied")
              <=> (last'.op = "Update" /\ last'.err = "" /\ last'.deleted = 0) ]_vars
    /\ BatchLoopEnds

(***************************************************************************)
(* What Flush of the writer leaves on disk (specification SpecLog).        *)
(***************************************************************************)
\* the write end newDiskQueueWriter restores from the files the writer d has left
ReopenedWriteEnd(d) == newDiskQueueWriter(d, FALSE).d.diskWriteEnd

\* C28: after any successful Flush of the log the persisted meta data holds the
\* in-memory write end, and a reopen right after it restores exactly that write end,
\* whatever the mutation before the Flush was (a put, RollbackWrite, ResetWriteEnd or
\* ResetWriteWithQueueStart).
C28_FlushPersistsWriteEnd ==
    (last.op = "Flush" /\ last.err = "")
        => /\ q.backend.metaData # None => q.backend.metaData[1] = q.backend.diskWriteEnd
           /\ ReopenedWriteEnd(q.backend) = q.backend.diskWriteEnd

(***************************************************************************)
(* The file rollover of an append (specification SpecLog).                 *)
(***************************************************************************)
\* the appends of the writer
Appends == {"PutV2", "PutRawV2"}

\* the step from the writer d to the writer e is an append of one record that ends at
\* position pos of the file d writes to: below maxBytesPerFile the write end stays in
\* the file; otherwise the write end with that position is synced to the meta data,
\* the sidecar of the file holds the message count, the offset the file starts at and
\* the virtual offset, the whole record is in the file and the next file holds nothing
\* of it, and the write and read ends are at position 0 of the next file
AppendedAt(d, e, pos) ==
    LET f == d.diskWriteEnd.FileNum
        written == [e.diskWriteEnd EXCEPT !.FileNum = f, !.Pos = pos]
    IN  /\ e.diskWriteEnd.Pos < maxBytesPerFile
        /\ e.files[f] >= pos
        /\ IF pos < maxBytesPerFile
           THEN /\ e.diskWriteEnd.FileNum = f
                /\ e.diskWriteEnd.Pos = pos
           ELSE /\ e.metaData = Some(written)
                /\ f \in DOMAIN e.offsetMeta
                /\ e.offsetMeta[f] = << e.diskWriteEnd.totalMsgCnt,
                                        d.diskWriteEnd.virtualEnd - d.diskWriteEnd.Pos,
                                        e.diskWriteEnd.virtualEnd >>
                /\ e.diskWriteEnd.FileNum = f + 1
                /\ e.diskWriteEnd.Pos = 0
                /\ e.diskReadEnd = e.diskWriteEnd
                /\ e.writeFile = None
                /\ (f + 1) \in DOMAIN e.files
                       => (f + 1) \in DOMAIN d.files /\ e.files[f + 1] = d.files[f + 1]

\* C29: after every successful append the write end's position in its file is below
\* maxBytesPerFile; an append that brings the position to maxBytesPerFile or more
\* syncs, writes the sidecar of the finished file (message count, file start offset,
\* file end offset = the virtual offset) and then moves the write end to position 0 of
\* the next file with readEnd = writeEnd; the record is whole in the finished file and
\* the virtual offset advances by the record's bytes only.
C29_AppendRollsWholeFiles ==
    [][ (last'.op \in Appends /\ last'.err = "")
        => /\ last'.offset = q.backend.diskWriteEnd.virtualEnd
           /\ q'.backend.diskWriteEnd.totalMsgCnt
                  = q.backend.diskWriteEnd.totalMsgCnt + last'.cnt
           /\ AppendedAt(q.backend, q'.backend,
                         q.backend.diskWriteEnd.Pos
                           + (q'.backend.diskWriteEnd.virtualEnd
                                - q.backend.diskWriteEnd.virtualEnd))
      ]_vars

\* an append of 12 bytes at position 12 has rolled file 0 over: its sidecar is written
\* and the write end is at position 0 of file 1 with virtual offset 24
C29_Witness ==
    /\ last.op \in Appends
    /\ last.err = ""
    /\ last.offset = 12
    /\ q.backend.diskWriteEnd.FileNum = 1
    /\ q.backend.diskWriteEnd.Pos = 0
    /\ q.backend.diskWriteEnd.virtualEnd = 24
    /\ q.backend.offsetMeta[0] = <<2, 0, 24>>

(***************************************************************************)
(* The state machine of the writer with the retention clean called on     *)
(* clean ends in every file and at every offset, dry and real.             *)
(***************************************************************************)
\* the clean ends: nil, a file end in file 1, 2 or beyond the read end, and a bare
\* offset inside or beyond the written data
RetentionEnds ==
    {None}
      \cup {Some([hasFile |-> TRUE, FileNum |-> n, virtualEnd |-> 24 * n]) : n \in {1, 2, 9}}
      \cup {Some([hasFile |-> FALSE, FileNum |-> 0, virtualEnd |-> o]) : o \in {13, 25, 100}}

RetentionClean ==
    /\ q.backend.exitFlag = 0
    /\ \E cleanEndInfo \in RetentionEnds, noRealClean \in BOOLEAN,
          maxCleanOffset \in {0, 12, 24} :
         LET returned(x) ==
                 /\ q' = [q EXCEPT !.backend = x.d]
                 /\ last' = [op |-> "CleanOldDataByRetention", err |-> x.err,
                             newStart |-> x.newStart, noRealClean |-> noRealClean,
                             maxCleanOffset |-> maxCleanOffset]
                 /\ UNCHANGED <<r, bk, th, mu, appended>>
         IN  returned(CleanOldDataByRetention(q.backend, cleanEndInfo, noRealClean,
                                              maxCleanOffset))

NextRetention ==
    \/ LogPutV2
    \/ LogPutRawV2
    \/ LogFlush
    \/ LogRollbackWriteV2
    \/ LogResetWriteEndV2
    \/ LogResetWriteWithQueueStart
    \/ RetentionClean

SpecRetention == Init /\ [][NextRetention]_vars

\* the clean that made the writer e of the writer d has moved the queue start forward
\* to position 0 of a file before the one the read end is in, with the virtual offset
\* and the count of the sidecar of the file before it, not beyond maxCleanOffset when
\* that is positive, and has removed data files below the new start only
MovedStart(d, e, maxCleanOffset) ==
    LET s == e.diskQueueStart
    IN  /\ s.FileNum > d.diskQueueStart.FileNum
        /\ s.virtualEnd >= d.diskQueueStart.virtualEnd
        /\ s.totalMsgCnt >= d.diskQueueStart.totalMsgCnt
        /\ s.Pos = 0
        /\ s.FileNum < d.diskReadEnd.FileNum
        /\ (s.FileNum - 1) \in DOMAIN d.offsetMeta
        /\ s.virtualEnd = d.offsetMeta[s.FileNum - 1][3]
        /\ s.totalMsgCnt = d.offsetMeta[s.FileNum - 1][1]
        /\ maxCleanOffset > 0 => s.virtualEnd <= maxCleanOffset
        /\ e.extraMeta = Some(s)
        /\ DOMAIN e.files \subseteq DOMAIN d.files
        /\ \A n \in DOMAIN d.files :
             IF n \in DOMAIN e.files THEN e.files[n] = d.files[n] ELSE n < s.FileNum

\* the clean that made the writer e of the writer d has left the queue start and all
\* data files and sidecars as they were
KeptStart(d, e) ==
    /\ e.diskQueueStart = d.diskQueueStart
    /\ e.files = d.files
    /\ e.offsetMeta = d.offsetMeta
    /\ e.rollData = d.rollData
    /\ e.metaData = d.metaData

\* C30: a real CleanOldDataByRetention either leaves the queue start or moves it
\* forward to position 0 of a file strictly before the file readEnd is in, with virtual
\* offset and count taken from the preceding file's sidecar and a virtual offset not
\* above a positive maxCleanOffset, removing only data files numbered below the new
\* start; a dry run and a failed call change neither queueStart nor any file.
C30_CleanMovesStartForward ==
    [][ last'.op = "CleanOldDataByRetention"
        => /\ (last'.noRealClean \/ last'.err # "") => q'.backend = q.backend
           /\ \/ KeptStart(q.backend, q'.backend)
              \/ MovedStart(q.backend, q'.backend, last'.maxCleanOffset)
           /\ q'.backend.diskWriteEnd = q.backend.diskWriteEnd
           /\ q'.backend.diskReadEnd = q.backend.diskReadEnd
      ]_vars

\* a real clean has moved the queue start from file 0 to position 0 of file 1, with the
\* offset and count of file 0's sidecar, and has removed file 0 and not file 1
C30_Witness ==
    /\ last.op = "CleanOldDataByRetention"
    /\ last.err = ""
    /\ ~last.noRealClean
    /\ last.maxCleanOffset = 24
    /\ q.backend.diskQueueStart = EndInfo(1, 0, 24, 2)
    /\ q.backend.offsetMeta[0] = <<2, 0, 24>>
    /\ DOMAIN q.backend.files = {1}
    /\ q.backend.diskReadEnd.FileNum = 2

(***************************************************************************)
(* ResetWriteEndV2 (specification SpecLogAny).                             *)
(***************************************************************************)
\* the write end of the writer e is in the file of the writer d that contains the
\* virtual offset: either the file d writes to, as many bytes before d's write end as
\* the offset is, or an earlier file whose sidecar gives the offset the file starts at;
\* the file is truncated to the position
InFileOfOffset(d, e, offset) ==
    LET f == e.diskWriteEnd.FileNum
        p == e.diskWriteEnd.Pos
    IN  /\ p >= 0
        /\ f \in DOMAIN e.files
        /\ e.files[f] = p
        /\ IF f = d.diskWriteEnd.FileNum
           THEN p = d.diskWriteEnd.Pos - (d.diskWriteEnd.virtualEnd - offset)
           ELSE /\ f < d.diskWriteEnd.FileNum
                /\ f \in DOMAIN d.offsetMeta
                /\ d.offsetMeta[f][2] + p = offset
                /\ p < d.files[f]

\* no data file of the writer e is numbered above its write file: every such file of
\* the writer d is renamed to .rolldata, and no file is deleted
LaterFilesRolled(d, e) ==
    /\ \A n \in DOMAIN e.files : n <= e.diskWriteEnd.FileNum
    /\ \A n \in DOMAIN d.files : n > e.diskWriteEnd.FileNum => n \in e.rollData
    /\ d.rollData \subseteq e.rollData
    /\ \A n \in DOMAIN d.files : n \in DOMAIN e.files \/ n \in e.rollData

\* what every ResetWriteEndV2(offset, totalCnt) does but for the message count it leaves
ResetMoves(d, e, offset, err) ==
    /\ (offset < d.diskQueueStart.virtualEnd \/ offset > d.diskWriteEnd.virtualEnd)
           => err = "invalid offset" /\ e = d
    /\ err = "" => /\ d.diskQueueStart.virtualEnd <= offset
                   /\ offset <= d.diskWriteEnd.virtualEnd
                   /\ e.diskWriteEnd.virtualEnd = offset
                   /\ e.diskReadEnd = e.diskWriteEnd
                   /\ e.diskQueueStart = d.diskQueueStart
                   /\ InFileOfOffset(d, e, offset)
                   /\ LaterFilesRolled(d, e)

\* C31 as stated: a successful ResetWriteEnd(offset, totalCnt) leaves writeEnd at the
\* offset with message count totalCnt and readEnd = writeEnd, in the file that contains
\* the offset, with every later data file renamed to .rolldata; a target below
\* queueStart or above writeEnd is rejected with the invalid-offset error and changes
\* nothing.
C31_ResetLeavesTotalCnt ==
    [][ last'.op = "ResetWriteEndV2"
        => /\ ResetMoves(q.backend, q'.backend, last'.offset, last'.err)
           /\ last'.err = "" => q'.backend.diskWriteEnd.totalMsgCnt = last'.cnt
      ]_vars

\* C31, amended: the same, but a reset to offset 0 makes writeEnd the queue start, so
\* the message count it leaves is the queue start's count, not totalCnt; a reset to a
\* positive offset leaves totalCnt.
C31_ResetToOffset ==
    [][ last'.op = "ResetWriteEndV2"
        => /\ ResetMoves(q.backend, q'.backend, last'.offset, last'.err)
           /\ last'.err = ""
                => q'.backend.diskWriteEnd.totalMsgCnt
                     = IF last'.offset = 0 THEN q.backend.diskQueueStart.totalMsgCnt
                       ELSE last'.cnt
      ]_vars

\* a reset to offset 12 from a write end in file 1 has walked back into file 0: the
\* write end is at position 12 of file 0 with the count given, file 0 is truncated to
\* 12 bytes and file 1 is renamed to .rolldata
C31_Witness ==
    /\ last.op = "ResetWriteEndV2"
    /\ last.err = ""
    /\ last.offset = 12
    /\ last.cnt = 1
    /\ q.backend.diskWriteEnd = EndInfo(0, 12, 12, 1)
    /\ q.backend.diskReadEnd = q.backend.diskWriteEnd
    /\ q.backend.files[0] = 12
    /\ 1 \notin DOMAIN q.backend.files
    /\ 1 \in q.backend.rollData

(***************************************************************************)
(* The validity of the stored rows (specification SpecReplica).            *)
(***************************************************************************)
\* C32: every row stored in delayed_message decodes to a valid delayed message (type
\* 1, 2 or 3; ChannelDelayed with an original id, a channel and a delivery time;
\* PubDelayed with a delivery time): no put stores an invalid message.
C32_StoredRowsAreValid ==
    \A m \in StoredMsgs(q) : IsValidDelayedMessage(m)

(***************************************************************************)
(* The state machine of a follower that is handed records again: replica   *)
(* puts of a few records, with the size to check absent or right, and      *)
(* confirms in between.                                                    *)
(***************************************************************************)
\* the records replayed: two with one key and different bodies, and one of another
\* key with the original id of the first
ReplayMsgs ==
    { Message(11, ChannelDelayed, 1, 5, ChanA, Body1),
      Message(11, ChannelDelayed, 1, 5, ChanA, Body2),
      Message(12, ChannelDelayed, 2, 5, ChanA, Body1) }

ReplayPutMessage ==
    /\ q.backend.diskWriteEnd.virtualEnd < MaxLogOffset
    /\ \E m \in ReplayMsgs, sizeDiff \in {-1, 0} :
         LET returned(x) ==
                 /\ q' = x.q
                 /\ last' = [op |-> "PutMessageOnReplica", err |-> x.err, m |-> m]
         IN  returned(PutMessageOnReplica(q, m, q.backend.diskWriteEnd.virtualEnd,
                          IF sizeDiff < 0 THEN 0 ELSE EncodedLen(WriteDelayedTo(m)) + 4,
                          NoFailure))
    /\ UNCHANGED <<r, bk, th, mu, appended>>

ReplayPutRawData ==
    /\ q.backend.diskWriteEnd.virtualEnd < MaxLogOffset
    /\ \E m \in ReplayMsgs, sizeDiff \in {-1, 0} :
         LET returned(x) ==
                 /\ q' = x.q
                 /\ last' = [op |-> "PutRawDataOnReplica", err |-> x.err, m |-> m]
             call(raw) ==
                 returned(PutRawDataOnReplica(q, raw, q.backend.diskWriteEnd.virtualEnd,
                              IF sizeDiff < 0 THEN 0 ELSE RawLen(raw), 1, NoFailure))
         IN  call(Framed(WriteDelayedTo(m)))
    /\ UNCHANGED <<r, bk, th, mu, appended>>

NextReplay ==
    \/ ReplayPutMessage
    \/ ReplayPutRawData
    \/ CleanConfirmedMessage

SpecReplay == Init /\ [][NextReplay]_vars

\* the store n is the store s with the message m applied again: all rows and counters
\* are those of s
AppliedAgain(s, n, m) ==
    /\ n.msg = s.msg
    /\ n.idx = s.idx
    /\ \A k \in DOMAIN n.meta \cup DOMAIN s.meta :
         k # syncedOffsetKey => k \in DOMAIN n.meta /\ k \in DOMAIN s.meta
                                  /\ n.meta[k] = s.meta[k]

\* the store n is the store s with the message m inserted under the key msgKey: the
\* primary row, the secondary row, and one more in the counter of its type and channel
AppliedFirst(s, n, m, msgKey) ==
    /\ n.msg = MapPut(s.msg, msgKey, WriteDelayedTo(m))
    /\ n.idx = MapPut(s.idx,
                      getDelayedMsgDBIndexKey(m.DelayedType, m.DelayedChannel,
                                              m.DelayedOrigID),
                      getDelayedMsgDBIndexValue(m.DelayedTs, m.DelayedOrigID))
    /\ readCounter(n, counterKey(m.DelayedType, m.DelayedChannel))
         = readCounter(s, counterKey(m.DelayedType, m.DelayedChannel)) + 1

\* the key of the message m in delayed_message
KeyOf(m) == getDelayedMsgDBKey(m.DelayedType, m.DelayedChannel, m.DelayedTs, m.ID)

\* C33: a successful replica put of a record whose key and encoded bytes are already in
\* the primary store leaves the primary rows, the secondary rows and the counters as
\* they were and moves only synced_offset, to the new write end; if the key was absent
\* the row is inserted with its secondary row and the counter is incremented once.
C33_ReplayIsIdempotent ==
    [][ (last'.op \in ReplicaPuts /\ last'.err = "")
        => /\ q'.kvStore.meta[syncedOffsetKey]
                = Itoa(q'.backend.diskWriteEnd.virtualEnd)
           /\ q'.backend.diskWriteEnd.virtualEnd > q.backend.diskWriteEnd.virtualEnd
           /\ (KeyOf(last'.m) \in DOMAIN q.kvStore.msg
                 /\ q.kvStore.msg[KeyOf(last'.m)] = WriteDelayedTo(last'.m))
                => AppliedAgain(q.kvStore, q'.kvStore, last'.m)
           /\ KeyOf(last'.m) \notin DOMAIN q.kvStore.msg
                => AppliedFirst(q.kvStore, q'.kvStore, last'.m, KeyOf(last'.m))
      ]_vars

\* the record of message 11 has been applied twice, at offsets 0 and 12: one row, its
\* counter is 1, and synced_offset is the write end 24
C33_Witness ==
    /\ last.op = "PutRawDataOnReplica"
    /\ last.err = ""
    /\ q.backend.diskWriteEnd.virtualEnd = 24
    /\ q.backend.diskWriteEnd.totalMsgCnt = 2
    /\ DOMAIN q.kvStore.msg = {KeyOf(last.m)}
    /\ readCounter(q.kvStore, counterKey(ChannelDelayed, ChanA)) = 1
    /\ q.kvStore.meta[syncedOffsetKey] = Itoa(24)

(***************************************************************************)
(* The state machine of one queue that is peeked with every filter: puts   *)
(* of messages of two channels and of two types, confirms, and peeks.      *)
(***************************************************************************)
\* the type and channel filters: none, a channel only, a type and a channel, a type
\* only
FilterPairs ==
    { <<-1, <<>> >>, <<-1, ChanB>>, <<ChannelDelayed, ChanA>>, <<ChannelDelayed, ChanB>>,
      <<ChannelDelayed, <<>> >>, <<PubDelayed, <<>> >> }

PeekFiltered ==
    /\ \E n \in {1, 2}, peekTs \in {1, 2}, f \in FilterPairs :
         LET filterType == f[1]
             filterChannel == f[2]
             returned(x) ==
                 /\ q' = x.q
                 /\ last' = [op |-> "PeekRecentTimeoutWithFilter", err |-> x.err,
                             results |-> x.results, n |-> n, peekTs |-> peekTs,
                             filterType |-> filterType, filterChannel |-> filterChannel]
         IN  returned(PeekRecentTimeoutWithFilter(q, n, peekTs, filterType, filterChannel))
    /\ UNCHANGED <<r, bk, th, mu, appended>>

NextPeek ==
    \/ UntilPut
    \/ CleanConfirmedMessage
    \/ PeekFiltered

SpecPeek == Init /\ [][NextPeek]_vars

\* the message m passes the type filter and the channel filter
Matches(m, filterType, filterChannel) ==
    /\ filterType >= 0 => m.DelayedType = filterType
    /\ filterChannel # <<>> => m.DelayedChannel = filterChannel

\* C34: every Peek returns at most len(results) messages, each a live row with
\* deliverAt <= the deadline, of the requested type and the requested channel when
\* these are given, in ascending key order, and no matching live row whose key sorts
\* before the last returned row's key is left out.
C34_PeekReturnsDuePrefix ==
    last.op = "PeekRecentTimeoutWithFilter" =>
        LET res == last.results
            keys == [i \in 1..Len(res) |-> RowKey(res[i])]
        IN  /\ Len(res) <= last.n
            /\ \A i \in 1..Len(res) :
                 /\ res[i].DelayedTs <= last.peekTs
                 /\ Matches(res[i], last.filterType, last.filterChannel)
                 /\ keys[i] \in DOMAIN q.kvStore.msg
                 /\ DecodeDelayedMessage(q.kvStore.msg[keys[i]]).m = res[i]
            /\ \A i, j \in 1..Len(res) : i < j => BytesLess(keys[i], keys[j])
            /\ \A m \in StoredMsgs(q) :
                 (/\ Len(res) > 0
                  /\ Matches(m, last.filterType, last.filterChannel)
                  /\ BytesLess(RowKey(m), keys[Len(res)]))
                     => \E i \in 1..Len(res) : res[i] = m

\* a peek of channel b with no type filter, a buffer of two and the deadline 1 has
\* returned the one row of channel b while rows of channel a and of the other type,
\* due too, are live
C34_Witness ==
    /\ last.op = "PeekRecentTimeoutWithFilter"
    /\ last.filterType = -1
    /\ last.filterChannel = ChanB
    /\ last.n = 2
    /\ last.peekTs = 1
    /\ Len(last.results) = 1
    /\ last.results[1].DelayedChannel = ChanB
    /\ Cardinality(DOMAIN q.kvStore.msg) = 3
    /\ \E m \in StoredMsgs(q) : m.DelayedType = PubDelayed

(***************************************************************************)
(* The state machine of one queue that is emptied by type and by channel:  *)
(* puts of channel delayed and pub delayed messages, with and without a    *)
(* channel name, EmptyDelayedType and EmptyDelayedChannel.                 *)
(***************************************************************************)
EmptyAllMsgs ==
    { Message(0, ChannelDelayed, 1, 5, ChanA, Body1),
      Message(0, ChannelDelayed, 2, 6, ChanA, Body1),
      Message(0, ChannelDelayed, 1, 7, ChanB, Body1),
      Message(0, PubDelayed, 1, 0, <<>>, Body1),
      Message(0, PubDelayed, 2, 0, ChanA, Body1) }

EmptyAllPut ==
    /\ q.backend.diskWriteEnd.virtualEnd < MaxLogOffset - maxMsgSize
    /\ \E m \in EmptyAllMsgs :
         LET returned(x) ==
                 /\ q' = x.q
                 /\ last' = [op |-> "PutDelayMessage", err |-> x.err]
         IN  returned(PutDelayMessage(q, m, NoFailure))
    /\ UNCHANGED <<r, bk, th, mu, appended>>

EmptyAllType ==
    /\ \E dt \in {ChannelDelayed, PubDelayed}, now \in Nows :
         LET returned(x) ==
                 /\ q' = x.q
                 /\ last' = [op |-> "EmptyDelayedType", err |-> x.err, dt |-> dt]
         IN  returned(EmptyDelayedType(q, dt, now))
    /\ UNCHANGED <<r, bk, th, mu, appended>>

EmptyAllChannel ==
    /\ \E ch \in {ChanA, ChanB}, now \in Nows :
         LET returned(x) ==
                 /\ q' = x.q
                 /\ last' = [op |-> "EmptyDelayedChannel", err |-> x.err, ch |-> ch]
         IN  returned(EmptyDelayedChannel(q, ch, now))
    /\ UNCHANGED <<r, bk, th, mu, appended>>

NextEmptyAll ==
    \/ EmptyAllPut
    \/ EmptyAllType
    \/ EmptyAllChannel

SpecEmptyAll == Init /\ [][NextEmptyAll]_vars

\* the rows of delayed_message and of delayed_message_index of the store s whose type
\* and channel satisfy hit, and the counters of such types and channels
HitRows(s, hit(_, _)) ==
    [msg |-> {k \in DOMAIN s.msg :
                 hit(decodeDelayedMsgDBKey(k).dt, decodeDelayedMsgDBKey(k).ch)},
     idx |-> {getDelayedMsgDBIndexKey(m.DelayedType, m.DelayedChannel, m.DelayedOrigID) :
                 m \in {x \in {DecodeDelayedMessage(s.msg[k]).m : k \in DOMAIN s.msg} :
                           hit(x.DelayedType, x.DelayedChannel)}} \cap DOMAIN s.idx,
     cnt |-> {k \in DOMAIN s.meta :
                 \E dt \in {ChannelDelayed, PubDelayed}, ch \in {<<>>, ChanA, ChanB} :
                    k = counterKey(dt, ch) /\ hit(dt, ch) /\ s.meta[k] # 0}]

\* the store n is the store s with the rows that hit emptied: none is left, its
\* secondary rows are gone and its counters are 0, and every other row is as it was
EmptiedOf(s, n, hit(_, _)) ==
    LET miss(dt, ch) == ~hit(dt, ch)
    IN  /\ HitRows(n, hit).msg = {}
        /\ HitRows(s, hit).idx \cap DOMAIN n.idx = {}
        /\ HitRows(n, hit).cnt = {}
        /\ HitRows(n, miss) = HitRows(s, miss)
        /\ \A k \in HitRows(s, miss).msg : n.msg[k] = s.msg[k]
        /\ \A k \in HitRows(s, miss).idx : n.idx[k] = s.idx[k]
        /\ \A k \in HitRows(s, miss).cnt : n.meta[k] = s.meta[k]

C36_ValueMatchesKey ==
    \A k \in DOMAIN q.kvStore.msg :
        /\ ~DecodeDelayedMessage(q.kvStore.msg[k]).err
        /\ RowKey(DecodeDelayedMessage(q.kvStore.msg[k]).m) = k

(***************************************************************************)
(* The state machine of two concurrent callers of PutRawDataOnReplica and  *)
(* PutMessageOnReplica: a call is the offset check on the write end it     *)
(* reads, the append (under the log's lock), the store transaction (under  *)
(* compactMutex) and the return.  appended holds the calls that returned   *)
(* success.                                                                *)
(***************************************************************************)
\* the records of the leader at the offsets 0 and 12
FollowerMsgs ==
    { Message(11, ChannelDelayed, 1, 5, ChanA, Body1),
      Message(12, ChannelDelayed, 2, 6, ChanA, Body1) }

\* the entry of a replica put: the exit flag, wend := GetQueueWriteEnd(), the offset
\* check (and IsValidDelayedMessage, which the messages pass)
FollowerCheck(t) ==
    /\ th[t].pc = "idle"
    /\ q.exitFlag = 0
    /\ q.backend.diskWriteEnd.virtualEnd < MaxLogOffset
    /\ \E m \in FollowerMsgs, offset \in {0, 12}, isRaw \in BOOLEAN :
         IF q.backend.diskWriteEnd.virtualEnd # offset
         THEN /\ th' = th
              /\ last' = [op |-> "replica put", err |-> "write offset mismatch",
                          t |-> t, offset |-> offset]
         ELSE /\ th' = [th EXCEPT ![t] = [pc |-> "checked", m |-> m, isRaw |-> isRaw,
                                          wend |-> q.backend.diskWriteEnd,
                                          dend |-> ZeroEnd]]
              /\ last' = [op |-> "check", err |-> "", t |-> t, offset |-> offset]
    /\ UNCHANGED <<q, r, bk, mu, appended>>

\* put up to the store transaction: the encoding into q.putBuffer and PutRawV2 of the
\* raw record, or PutV2 of the encoded message
FollowerAppend(t) ==
    /\ th[t].pc = "checked"
    /\ LET written(w) ==
               /\ q' = [q EXCEPT !.putBuffer = WriteDelayedTo(th[t].m),
                                 !.backend = w.d, !.needFlush = 1]
               /\ th' = [th EXCEPT ![t].pc = "appended", ![t].dend = w.dend]
               /\ last' = [op |-> "append", err |-> w.err, t |-> t,
                           offset |-> w.offset]
       IN  written(IF th[t].isRaw
                   THEN PutRawV2(q.backend, RawLen(Framed(WriteDelayedTo(th[t].m))), 1,
                                 FALSE)
                   ELSE PutV2(q.backend, EncodedLen(WriteDelayedTo(th[t].m)), FALSE))
    /\ UNCHANGED <<r, bk, mu, appended>>

\* compactMutex.Lock(), the store transaction, compactMutex.Unlock()
FollowerCommit(t) ==
    /\ th[t].pc = "appended"
    /\ LET committed(x) ==
               /\ q' = [q EXCEPT !.kvStore = x.s]
               /\ th' = [th EXCEPT ![t].pc = "committed"]
               /\ last' = [op |-> "commit", err |-> x.err, t |-> t, offset |-> 0]
       IN  committed(putTx(q.kvStore, th[t].m, q.putBuffer, th[t].dend))
    /\ UNCHANGED <<r, bk, mu, appended>>

\* the rest of put and the return of the replica put with the write end of its append
FollowerReturn(t) ==
    /\ th[t].pc = "committed"
    /\ LET hinted(q1) ==
               q' = IF \/ q1.SyncEvery = 1
                       \/ th[t].dend.totalMsgCnt - q1.lastSyncCnt >= q1.SyncEvery
                    THEN flush(q1) ELSE q1
       IN  hinted([q EXCEPT !.oldestChannelDelayedTs = updateOldest(@, th[t].m)])
    /\ appended' = Append(appended, [t |-> t, offset |-> th[t].wend.virtualEnd,
                                     dend |-> th[t].dend])
    /\ th' = [th EXCEPT ![t] = IdleThreads[t]]
    /\ last' = [op |-> "replica put", err |-> "", t |-> t,
                offset |-> th[t].wend.virtualEnd]
    /\ UNCHANGED <<r, bk, mu>>

NextFollower ==
    \/ \E t \in Threads : FollowerCheck(t)
    \/ \E t \in Threads : FollowerAppend(t)
    \/ \E t \in Threads : FollowerCommit(t)
    \/ \E t \in Threads : FollowerReturn(t)

SpecFollower == Init /\ [][NextFollower]_vars

\* C37: of the replica puts that carry one expected offset, at most one appends to the
\* log and returns success, and every append of a replica put is made at the offset
\* the call expects: the offset check and the append are atomic.
C37_OneSuccessPerOffset ==
    /\ \A i, j \in 1..Len(appended) :
         i # j => appended[i].offset # appended[j].offset
    /\ \A i \in 1..Len(appended) :
         appended[i].dend.virtualEnd = appended[i].offset + 12

(***************************************************************************)
(* The state machine of a follower that is handed raw records with a size  *)
(* to check that is absent, right or wrong.                                *)
(***************************************************************************)
RawSizePut ==
    /\ q.backend.diskWriteEnd.virtualEnd < MaxLogOffset
    /\ \E m \in FollowerMsgs, sizeDiff \in {-1, 0, 1} :
         LET returned(x, raw) ==
                 /\ q' = x.q
                 /\ last' = [op |-> "PutRawDataOnReplica", err |-> x.err, m |-> m,
                             sizeDiff |-> sizeDiff, dend |-> x.dend]
             call(raw) ==
                 returned(PutRawDataOnReplica(q, raw, q.backend.diskWriteEnd.virtualEnd,
                              IF sizeDiff < 0 THEN 0 ELSE RawLen(raw) + sizeDiff, 1,
                              NoFailure),
                          raw)
         IN  call(Framed(WriteDelayedTo(m)))
    /\ UNCHANGED <<r, bk, th, mu, appended>>

NextRawSize ==
    \/ RawSizePut
    \/ CleanConfirmedMessage
    \/ DoForceFlush

SpecRawSize == Init /\ [][NextRawSize]_vars

\* C38: whenever PutRawDataOnReplica returns success, the row of the decoded message is
\* in delayed_message and synced_offset is the offset of the write end it returns,
\* which is the log's write end; a call whose positive checkSize differs from the bytes
\* appended does not return success with the log advanced and the index untouched.
C38_RawSuccessIsIndexed ==
    [][ (last'.op = "PutRawDataOnReplica" /\ last'.err = "")
        => /\ KeyOf(last'.m) \in DOMAIN q'.kvStore.msg
           /\ last'.dend = q'.backend.diskWriteEnd
           /\ syncedOffsetKey \in DOMAIN q'.kvStore.meta
           /\ q'.kvStore.meta[syncedOffsetKey] = Itoa(last'.dend.virtualEnd)
           /\ last'.sizeDiff <= 0
      ]_vars

\* ---------------------------------------------------------------------------
\* The locks of the delayed queue and of its log: which lock every operation
\* takes and releases, and in which order.
\* ---------------------------------------------------------------------------

\* sync.Mutex.Lock / Unlock and sync.RWMutex.RLock / RUnlock as steps of a goroutine.
LockOf(l) == [k |-> "Lock", l |-> l]

UnlockOf(l) == [k |-> "Unlock", l |-> l]

RLockOf(l) == [k |-> "RLock", l |-> l]

RUnlockOf(l) == [k |-> "RUnlock", l |-> l]

LockNames == {"compactMutex", "dbLock", "oldestMutex", "backend"}

\* The order in which nested locks are taken.
LockRank(l) ==
    CASE l = "compactMutex" -> 1
      [] l = "dbLock"       -> 2
      [] l = "oldestMutex"  -> 3
      [] l = "backend"      -> 4

\* getStore: dbLock around the read of the handle.
getStoreLocks == <<LockOf("dbLock"), UnlockOf("dbLock")>>

\* PutV2 / PutRawV2 / Flush / ResetWriteEndV2 ...: the log's lock, exclusive.
backendLocks == <<LockOf("backend"), UnlockOf("backend")>>

\* GetQueueWriteEnd / GetQueueReadStart / GetQueueReadEnd: the log's lock, shared.
GetQueueWriteEndLocks == <<RLockOf("backend"), RUnlockOf("backend")>>

\* reOpenStore: the hint map is replaced under oldestMutex once the file is open.
reOpenStoreLocks(opened) ==
    IF opened THEN <<LockOf("oldestMutex"), UnlockOf("oldestMutex")>> ELSE <<>>

\* flush: nothing when needFlush is not set; else GetQueueWriteEnd, Flush, getStore().Sync().
flushLocks(needFlush) ==
    IF needFlush THEN GetQueueWriteEndLocks \o backendLocks \o getStoreLocks ELSE <<>>

\* put: the append, then the transaction under compactMutex (the handle is read
\* inside), then the hint under oldestMutex, then flush.
putLocks(written, channelDelayed, flushed) ==
    IF ~written THEN backendLocks
    ELSE backendLocks
         \o <<LockOf("compactMutex")>> \o getStoreLocks \o <<UnlockOf("compactMutex")>>
         \o (IF channelDelayed THEN <<LockOf("oldestMutex"), UnlockOf("oldestMutex")>> ELSE <<>>)
         \o flushLocks(flushed)

ConfirmedMessageLocks ==
    <<LockOf("compactMutex")>> \o getStoreLocks \o <<UnlockOf("compactMutex")>>

\* emptyDelayedUntil: the handle is read first; compactMutex is released on return.
emptyDelayedUntilLocks(hinted) ==
    getStoreLocks \o <<LockOf("compactMutex")>>
    \o (IF hinted THEN <<LockOf("oldestMutex"), UnlockOf("oldestMutex")>> ELSE <<>>)
    \o <<UnlockOf("compactMutex")>>

emptyAllDelayedTypeLocks(hinted) ==
    getStoreLocks \o <<LockOf("compactMutex")>>
    \o (IF hinted THEN <<LockOf("oldestMutex"), UnlockOf("oldestMutex")>> ELSE <<>>)
    \o <<UnlockOf("compactMutex")>>

\* PeekRecentTimeoutWithFilter: the hint is read under oldestMutex, the rows are
\* read with no lock of the queue held, the hint is written under oldestMutex.
PeekLocks(hinted, skipped, drained) ==
    (IF hinted THEN <<LockOf("oldestMutex"), UnlockOf("oldestMutex")>> ELSE <<>>)
    \o (IF hinted /\ skipped THEN <<>>
        ELSE getStoreLocks
             \o (IF drained THEN <<LockOf("oldestMutex"), UnlockOf("oldestMutex")>> ELSE <<>>))

CompactPaths == {"small", "failed", "closed", "reopened"}

\* compactStore with dbLock taken before compactMutex.
compactStoreLocksStoreFirst(path) ==
    CASE path = "small"  -> getStoreLocks
      [] path = "failed" -> getStoreLocks \o <<LockOf("compactMutex"), UnlockOf("compactMutex")>>
      [] OTHER           -> getStoreLocks \o <<LockOf("dbLock"), LockOf("compactMutex")>>
                            \o reOpenStoreLocks(path = "reopened")
                            \o <<UnlockOf("compactMutex"), UnlockOf("dbLock")>>

\* compactStore: the handle is read; below the thresholds it returns; else
\* compactMutex, the copy, dbLock, Close, rename, reOpenStore; the deferred
\* unlocks run in reverse order.
compactStoreLocks(path) ==
    CASE path = "small"  -> getStoreLocks
      [] path = "failed" -> getStoreLocks \o <<LockOf("compactMutex"), UnlockOf("compactMutex")>>
      [] OTHER           -> getStoreLocks \o <<LockOf("compactMutex"), LockOf("dbLock")>>
                            \o reOpenStoreLocks(path = "reopened")
                            \o <<UnlockOf("dbLock"), UnlockOf("compactMutex")>>

\* RestoreKVStoreFrom: compactMutex, dbLock, Close, rename, reOpenStore.
RestoreKVStoreFromLocks(renamed, opened) ==
    <<LockOf("compactMutex"), LockOf("dbLock")>>
    \o (IF renamed THEN reOpenStoreLocks(opened) ELSE <<>>)
    \o <<UnlockOf("dbLock"), UnlockOf("compactMutex")>>

\* Every operation with every path through its locks.
LockPrograms ==
    {[op |-> "put", prog |-> putLocks(w, c, s)] : w \in BOOLEAN, c \in BOOLEAN, s \in BOOLEAN}
    \cup {[op |-> "ConfirmedMessage", prog |-> ConfirmedMessageLocks]}
    \cup {[op |-> "emptyDelayedUntil", prog |-> emptyDelayedUntilLocks(h)] : h \in BOOLEAN}
    \cup {[op |-> "emptyAllDelayedType", prog |-> emptyAllDelayedTypeLocks(h)] : h \in BOOLEAN}
    \cup {[op |-> "Peek", prog |-> PeekLocks(h, k, d)] : h \in BOOLEAN, k \in BOOLEAN, d \in BOOLEAN}
    \cup {[op |-> "compactStore", prog |-> compactStoreLocks(p)] : p \in CompactPaths}
    \cup {[op |-> "RestoreKVStoreFrom", prog |-> RestoreKVStoreFromLocks(n, o)] :
              n \in BOOLEAN, o \in BOOLEAN}
    \cup {[op |-> "flush", prog |-> flushLocks(n)] : n \in BOOLEAN}
    \cup {[op |-> "backend", prog |-> backendLocks],
          [op |-> "backend", prog |-> GetQueueWriteEndLocks]}

LockIdle == [pc |-> "idle", op |-> "", prog |-> <<>>, held |-> <<>>]

FreeLocks == [l \in LockNames |-> [w |-> {}, r |-> {}]]

InitLocks ==
    /\ q = NewDelayQueue(2)
    /\ r = NewDelayQueue(2)
    /\ bk = None
    /\ last = [op |-> "NewDelayQueue", err |-> ""]
    /\ th = [t \in Threads |-> LockIdle]
    /\ mu = FreeLocks
    /\ appended = <<>>

\* What a goroutine holds, read from the locks themselves.
Holds(t, l) == t \in mu[l].w \/ t \in mu[l].r

\* Can the step be taken now?
CanTake(t, s) ==
    CASE s.k = "Lock"    -> mu[s.l].w = {} /\ mu[s.l].r = {}
      [] s.k = "RLock"   -> mu[s.l].w = {}
      [] s.k = "Unlock"  -> t \in mu[s.l].w
      [] s.k = "RUnlock" -> t \in mu[s.l].r

LockBegin(t) ==
    /\ th[t].pc = "idle"
    /\ \E p \in LockPrograms :
           th' = [th EXCEPT ![t] = [pc |-> "run", op |-> p.op, prog |-> p.prog, held |-> <<>>]]
    /\ UNCHANGED <<q, r, bk, last, mu, appended>>

Acquire(t) ==
    /\ th[t].pc = "run"
    /\ th[t].prog # <<>>
    /\ LET s == Head(th[t].prog)
       IN  /\ s.k \in {"Lock", "RLock"}
           /\ CanTake(t, s)
           /\ mu' = [mu EXCEPT ![s.l] = IF s.k = "Lock" THEN [@ EXCEPT !.w = {t}]
                                        ELSE [@ EXCEPT !.r = @ \cup {t}]]
           /\ th' = [th EXCEPT ![t].prog = Tail(@), ![t].held = Append(@, s.l)]
    /\ UNCHANGED <<q, r, bk, last, appended>>

Release(t) ==
    /\ th[t].pc = "run"
    /\ th[t].prog # <<>>
    /\ LET s == Head(th[t].prog)
       IN  /\ s.k \in {"Unlock", "RUnlock"}
           /\ CanTake(t, s)
           /\ mu' = [mu EXCEPT ![s.l] = IF s.k = "Unlock" THEN [@ EXCEPT !.w = {}]
                                        ELSE [@ EXCEPT !.r = @ \ {t}]]
           /\ th' = [th EXCEPT ![t].prog = Tail(@),
                               ![t].held = SelectSeq(@, LAMBDA l : l # s.l)]
    /\ UNCHANGED <<q, r, bk, last, appended>>

LockReturn(t) ==
    /\ th[t].pc = "run"
    /\ th[t].prog = <<>>
    /\ th' = [th EXCEPT ![t] = LockIdle]
    /\ UNCHANGED <<q, r, bk, last, mu, appended>>

NextLocks == \E t \in Threads : LockBegin(t) \/ Acquire(t) \/ Release(t) \/ LockReturn(t)

\* A goroutine that can run does run; a goroutine waiting for a mutex that is
\* free again and again gets it (sync.Mutex hands the lock to a starving waiter).
SpecLocks ==
    /\ InitLocks
    /\ [][NextLocks]_vars
    /\ \A t \in Threads : /\ SF_vars(Acquire(t))
                          /\ WF_vars(Release(t))
                          /\ WF_vars(LockReturn(t))

\* The locks a goroutine holds were taken in the order compactMutex, dbLock,
\* oldestMutex, and the log's lock is never taken with another one held.
LocksInOrder ==
    \A t \in Threads :
        /\ \A i, j \in DOMAIN th[t].held :
               i < j => LockRank(th[t].held[i]) < LockRank(th[t].held[j])
        /\ Holds(t, "backend") => Len(th[t].held) = 1

\* A goroutine in an operation whose next step can be taken.
CanStep(t) ==
    /\ th[t].pc = "run"
    /\ th[t].prog # <<>> => CanTake(t, Head(th[t].prog))

SomeoneSteps ==
    (\E t \in Threads : th[t].pc = "run") => \E t \in Threads : CanStep(t)

\* C39: no interleaving of the operations deadlocks: nested locks are always
\* taken in the one order compactMutex, dbLock, oldestMutex (the log's lock
\* alone), whenever an operation is under way some operation can take its next
\* step, and every operation that starts returns holding no lock.
C39_LocksNeverDeadlock ==
    /\ [](LocksInOrder /\ SomeoneSteps)
    /\ \A t \in Threads :
           (th[t].pc = "run") ~> (th[t].pc = "idle" /\ \A l \in LockNames : ~Holds(t, l))

\* One goroutine is inside compactStore holding compactMutex, dbLock and
\* oldestMutex while the other waits in put for compactMutex.
C39_Witness ==
    \E t, u \in Threads :
        /\ th[t].pc = "run" /\ th[t].op = "compactStore"
        /\ th[t].held = <<"compactMutex", "dbLock", "oldestMutex">>
        /\ th[u].pc = "run" /\ th[u].op = "put"
        /\ th[u].prog # <<>> /\ Head(th[u].prog) = LockOf("compactMutex")
        /\ ~CanStep(u)

\* ---------------------------------------------------------------------------
\* The consumed state a leader reports and a replica applies.
\* ---------------------------------------------------------------------------

\* GetOldestConsumedState: the types other than ChannelDelayed, in loop order
OtherTypes == [i \in 1..(MaxDelayedType - 1 - ChannelDelayed) |-> ChannelDelayed + i]

\* GetOldestConsumedState: the prefixes to scan with the channel each belongs to
consumedPrefixList(chList, includeOthers) ==
    (IF includeOthers
     THEN [i \in DOMAIN OtherTypes |->
               <<getDelayedMsgDBPrefixKey(OtherTypes[i], <<>>), <<>> >>]
     ELSE <<>>)
    \o [i \in DOMAIN chList |->
            <<getDelayedMsgDBPrefixKey(ChannelDelayed, chList[i]), chList[i]>>]

\* GetOldestConsumedState: the counters, each read by GetCurrentDelayedCnt in a read
\* transaction of its own
consumedCntList(qq, includeOthers) ==
    [dt \in (IF includeOthers THEN {OtherTypes[i] : i \in DOMAIN OtherTypes} ELSE {}) |->
         GetCurrentDelayedCnt(qq, dt, <<>>)]

consumedChannelCntList(qq, chList) ==
    [ch \in {chList[i] : i \in DOMAIN chList} |-> GetCurrentDelayedCnt(qq, ChannelDelayed, ch)]

\* the cursor loop of one prefix: the first key under the prefix whose channel is
\* the one asked for
RECURSIVE oldestKeyOf(_, _, _)
oldestKeyOf(keys, prefix, origCh) ==
    LET keyed(dk) ==
            IF dk.err \/ dk.ch # origCh THEN oldestKeyOf(Tail(keys), prefix, origCh)
            ELSE <<Head(keys)>>
    IN  IF keys = <<>> THEN <<>>
        ELSE IF ~HasPrefix(Head(keys), prefix) THEN <<>>
        ELSE keyed(decodeDelayedMsgDBKey(Head(keys)))

\* GetOldestConsumedState: the key list, one read transaction per prefix
RECURSIVE consumedKeyList(_, _)
consumedKeyList(qq, prefixList) ==
    IF prefixList = <<>> THEN <<>>
    ELSE oldestKeyOf(Seek(qq.kvStore.msg, Head(prefixList)[1]),
                     Head(prefixList)[1], Head(prefixList)[2])
         \o consumedKeyList(qq, Tail(prefixList))

\* the channels a leader reports on
ConsumedChList == <<ChanA>>

ConsumedMsgs ==
    { Message(0, ChannelDelayed, 1, 5, ChanA, Body1),
      Message(0, ChannelDelayed, 2, 6, ChanA, Body1),
      Message(0, PubDelayed, 1, 0, <<>>, Body1) }

\* a put on the leader, replicated to the follower at the leader's offset
PairPut ==
    /\ q.backend.diskWriteEnd.totalMsgCnt < MaxID
    /\ \E m \in ConsumedMsgs :
         LET copied(x, y) ==
                 /\ x.err = "" /\ y.err = ""
                 /\ q' = x.q
                 /\ r' = y.q
                 /\ last' = [op |-> "PutDelayMessage", err |-> x.err]
             returned(x) ==
                 copied(x, PutMessageOnReplica(r, [m EXCEPT !.ID = x.id], x.offset,
                                               x.writeBytes, NoFailure))
         IN  returned(PutDelayMessage(q, m, NoFailure))
    /\ UNCHANGED <<bk, th, mu, appended>>

\* GetOldestConsumedState on the leader, up to the end of its counter reads
TakeCounts ==
    /\ th[1].pc = "idle"
    /\ \E includeOthers \in BOOLEAN :
         th' = [th EXCEPT ![1] = [pc |-> "counted", includeOthers |-> includeOthers,
                                  cntList |-> consumedCntList(q, includeOthers),
                                  channelCntList |-> consumedChannelCntList(q, ConsumedChList),
                                  counted |-> DOMAIN q.kvStore.msg]]
    /\ last' = [op |-> "GetCurrentDelayedCnt", err |-> ""]
    /\ UNCHANGED <<q, r, bk, mu, appended>>

\* GetOldestConsumedState on the leader, its key scans and its return
TakeKeys ==
    /\ th[1].pc = "counted"
    /\ th' = [th EXCEPT ![1] =
                  [pc |-> "taken", includeOthers |-> @.includeOthers,
                   cntList |-> @.cntList, channelCntList |-> @.channelCntList,
                   counted |-> @.counted,
                   keyList |-> consumedKeyList(q, consumedPrefixList(ConsumedChList,
                                                                     @.includeOthers)),
                   live |-> DOMAIN q.kvStore.msg]]
    /\ last' = [op |-> "GetOldestConsumedState", err |-> ""]
    /\ UNCHANGED <<q, r, bk, mu, appended>>

\* UpdateConsumedState on the follower with what the leader returned
ApplyState ==
    /\ th[1].pc = "taken"
    /\ \E now \in Nows :
         LET returned(x) ==
                 /\ r' = x.q
                 /\ last' = [op |-> "UpdateConsumedState", err |-> x.err]
         IN  returned(UpdateConsumedState(r, th[1].keyList, th[1].cntList,
                                          th[1].channelCntList, now))
    /\ th' = [th EXCEPT ![1] = IdleThreads[1]]
    /\ UNCHANGED <<q, bk, mu, appended>>

NextConsumed ==
    \/ PairPut
    \/ CleanConfirmedMessage
    \/ TakeCounts
    \/ TakeKeys
    \/ ApplyState

SpecConsumed == Init /\ [][NextConsumed]_vars

\* the rows of a store that belong to the type and channel of key k
SameTypeChannel(k, k2) ==
    /\ decodeDelayedMsgDBKey(k).dt = decodeDelayedMsgDBKey(k2).dt
    /\ decodeDelayedMsgDBKey(k).ch = decodeDelayedMsgDBKey(k2).ch

\* C40: what GetOldestConsumedState returns while puts and confirms run is
\* consistent - a channel reported with count 0 has no key in the key list - and
\* UpdateConsumedState of it on a replica holding the same rows deletes only rows
\* that sort strictly before every row of the same type and channel that was live
\* on the leader when the state was returned, so no row live on the leader is
\* deleted.
C40_ConsumedStateIsConsistent ==
    [][ last'.op = "UpdateConsumedState"
        => /\ \A ch \in DOMAIN th[1].channelCntList :
                  th[1].channelCntList[ch] = 0
                  => \A i \in DOMAIN th[1].keyList :
                         decodeDelayedMsgDBKey(th[1].keyList[i]).ch # ch
           /\ \A k \in DOMAIN r.kvStore.msg \ DOMAIN r'.kvStore.msg :
                  \A k2 \in th[1].live : SameTypeChannel(k, k2) => BytesLess(k, k2)
      ]_vars

====
